---- MODULE Spec2Model ----
(***************************************************************************)
(* gbb: the repository state engine.                                       *)
(*                                                                         *)
(*   - SpecDiscover: discover_repo (src/src/gbb/git.py) as a pure function *)
(*     of the facts git reports for one repository.                        *)
(*   - Spec: GbbApp (src/src/gbb/app.py): the snapshot, the table cursor,  *)
(*     the refresh worker and the delete protocol.                         *)
(*   - SpecLanes, SpecNames, SpecCursor, SpecPins, SpecOutage: GbbApp      *)
(*     with the fetch lane, with repositories that share a directory       *)
(*     name, with the cursor and the filter, with pins, and with           *)
(*     repositories that stop and start answering.                         *)
(*   - SpecFingerprint: _data_fingerprint on a snapshot and a change.      *)
(*   - SpecCleanup: delete_branch and delete_worktree                      *)
(*     (src/src/gbb/cleanup.py) against one run of git.                    *)
(*   - SpecWorktrees: parse_worktrees on git's porcelain output.           *)
(*   - SpecCreate, SpecLoading, SpecConfirm: GbbApp with the creation of   *)
(*     a worktree, with the discovery burst and the exit, and with the     *)
(*     delete protocol alone.                                              *)
(*   - SpecDefault, SpecTwins, SpecBare: the delete protocol when          *)
(*     origin/HEAD names another branch than main, when two repositories   *)
(*     share a directory name and a branch name, and when a repository     *)
(*     shows a single branch.                                              *)
(*   - SpecScoped: _scoped_rows as a pure function of the rows, the scope, *)
(*     the active branch and the pin set.                                  *)
(***************************************************************************)
EXTENDS Integers, Sequences, FiniteSets, TLC

VARIABLES
    \* ---- discover_repo, one call ----
    d_pc,        \* "facts": the call has not run; "done": it returned
    d_git,       \* what git reports for the repository
    d_cwd,       \* the cwd argument
    d_result,    \* the returned list[BranchInfo]
    \* ---- _data_fingerprint, two calls ----
    f_pc,        \* "snapshot": nothing computed; "done": both fingerprints taken
    f_data,      \* a snapshot
    f_change,    \* one field of one of its entries, and the value it changes to
    f_result,    \* the fingerprints of the snapshot and of the changed snapshot
    \* ---- cleanup.delete_branch / delete_worktree, one call ----
    c_pc,        \* "call": the call has not run; "done": it returned
    c_call,      \* the function and its arguments
    c_git,       \* how git would exit, and what it would write to stderr
    c_result,    \* the command that was run and the value returned
    \* ---- parse_worktrees, one call ----
    w_pc,        \* "output": the call has not run; "done": it returned
    w_output,    \* the output of git worktree list --porcelain, line by line
    w_result,    \* the returned dict, as the list of its items
    \* ---- the environment of GbbApp ----
    world,       \* what git reports for the configured repositories
    budget,      \* how often git's state and the user's requests may still change
    \* ---- GbbApp, the fields the coordinating thread owns ----
    app_pc,      \* "init": constructed; "running": on_mount has run; "exited"
    repo_data,   \* list[(name, path, list[BranchInfo])]
    all_rows,    \* _all_rows
    table,       \* the DataTable's row keys, in display order
    cursor,      \* table.cursor_row
    scope,       \* _show_all, _current_repo, _effective_cwd, _loading_others
    filter,      \* filtering and the value of the #filter-bar Input
    pins,        \* _pins
    confirm,     \* _pending_delete, the #confirm-bar and the DeleteConfirmScreen
    \* ---- the workers ----
    discovery,   \* group "discovery"
    refresh,     \* group "refresh": the runs whose result is not yet handed over
    fetch,       \* group "fetch"
    check,       \* group "delete-check"
    deletes,     \* group "delete": one entry per _do_delete run
    create,      \* the CreateWorktreeScreen, and group "create-worktree"
    \* ---- history ----
    calls,       \* the delete_worktree / delete_branch calls made so far
    last_apply   \* what _apply_refresh did, when it was the step just taken

d_vars == <<d_pc, d_git, d_cwd, d_result, f_pc, f_data, f_change, f_result,
            c_pc, c_call, c_git, c_result, w_pc, w_output, w_result>>

env_vars == <<world, budget>>

ui_vars == <<app_pc, repo_data, all_rows, table, cursor, scope, filter, pins, confirm>>

worker_vars == <<discovery, refresh, fetch, check, deletes, create>>

vars == <<d_pc, d_git, d_cwd, d_result, f_pc, f_data, f_change, f_result,
          c_pc, c_call, c_git, c_result, w_pc, w_output, w_result, world,
          budget, app_pc, repo_data, all_rows, table, cursor, scope, filter, pins,
          confirm, discovery, refresh, fetch, check, deletes, create, calls,
          last_apply>>

-----------------------------------------------------------------------------
(* Values *)

\* Python's None where a str is expected
None == "None"

\* time.time() at the call (epoch seconds), cutoff = now - recent_days * 86400
SecondsPerDay == 86400
RecentDays == 14
Now == 100 * SecondsPerDay

\* A Path is the sequence of its components; <<>> stands for "no path".
NoPath == <<>>

\* str(cwd).startswith(str(path) + "/"): path is a proper ancestor directory
StartsWithDir(cwd, path) ==
    /\ Len(path) < Len(cwd)
    /\ SubSeq(cwd, 1, Len(path)) = path

\* git.Worktree; NoWorktree is BranchInfo.worktree = None
Worktree(path, head, branch) == [path |-> path, head |-> head, branch |-> branch]
NoWorktree == Worktree(NoPath, "", "")

\* git.BranchInfo as parse_branches builds it: every other field at its default
BranchInfo(name, commit, timestamp) ==
    [name |-> name, commit |-> commit, timestamp |-> timestamp,
     worktree |-> NoWorktree, is_current |-> FALSE, dirty |-> FALSE,
     ahead_upstream |-> 0, behind_upstream |-> 0,
     ahead_main |-> 0, behind_main |-> 0,
     deletable |-> FALSE, delete_reason |-> None]

-----------------------------------------------------------------------------
(* The Git Query Layer: each query as a function of git's output *)

\* "[gone]" in track
parse_tracking_status(track) == track = "[gone]"

\* gone_branches.get(name)
gone_branches(g, name) == parse_tracking_status(g.track[name])

\* symbolic-ref refs/remotes/origin/HEAD first, then refs/heads/main, then
\* refs/heads/master; g.originHead is the ref with its prefix removed
detect_main_branch(g) ==
    IF g.originHead # "" THEN g.originHead
    ELSE IF \E i \in 1..Len(g.names) : g.names[i] = "main" THEN "main"
    ELSE IF \E i \in 1..Len(g.names) : g.names[i] = "master" THEN "master"
    ELSE None

\* is_dirty(wt.path): status --porcelain printed something
is_dirty(g, name) == g.porcelain[name] # <<>>

\* ahead_behind: the two counts of rev-list --left-right --count, (0, 0)
\* when the output does not split in two parts
ahead_behind(parts) ==
    IF Len(parts) = 2 THEN <<parts[1], parts[2]>> ELSE <<0, 0>>

is_squash_merged_mut_empty(g, name) ==
    \A i \in 1..Len(g.cherry[name]) : g.cherry[name][i] = "-"

\* is_squash_merged: git cherry printed at least one line and every line
\* starts with "-"
is_squash_merged(g, name) ==
    LET output == g.cherry[name]
    IN  IF output = <<>> THEN FALSE
        ELSE \A i \in 1..Len(output) : output[i] = "-"

\* is_ancestor: merge-base --is-ancestor exited 0
is_ancestor(g, name) == g.ancestor[name]

-----------------------------------------------------------------------------
(* The Branch Classifier: discover_repo *)

cutoff == Now - (RecentDays * SecondsPerDay)

\* cwd == wt.path or str(cwd).startswith(str(wt.path) + "/")
is_current_mut_exact(cwd, path) == cwd = path
is_current(cwd, path) == cwd = path \/ StartsWithDir(cwd, path)

\* elif info.timestamp < cutoff: continue
too_old_mut_inclusive(timestamp) == timestamp <= cutoff
too_old(timestamp) == timestamp < cutoff

\* if name != main_branch and not info.is_current
eligible_mut_no_current(name, main_branch, info) == name # main_branch
eligible_mut_no_main(name, main_branch, info) == ~info.is_current
eligible(name, main_branch, info) == name # main_branch /\ ~info.is_current

\* the if / elif / elif chain; None when no rule matches
delete_rule_mut_merged_first(g, name, main_branch) ==
    IF main_branch # None /\ is_ancestor(g, name) THEN "merged"
    ELSE IF gone_branches(g, name) THEN "upstream gone"
    ELSE IF main_branch # None /\ is_squash_merged(g, name) THEN "squash-merged"
    ELSE None
delete_rule_mut_no_main(g, name, main_branch) ==
    IF gone_branches(g, name) THEN "upstream gone"
    ELSE IF is_ancestor(g, name) THEN "merged"
    ELSE IF is_squash_merged(g, name) THEN "squash-merged"
    ELSE None
delete_rule(g, name, main_branch) ==
    IF gone_branches(g, name) THEN "upstream gone"
    ELSE IF main_branch # None /\ is_ancestor(g, name) THEN "merged"
    ELSE IF main_branch # None /\ is_squash_merged(g, name) THEN "squash-merged"
    ELSE None

\* if name in worktrees: attach the worktree, its head, is_current, dirty
with_worktree(g, cwd, name, info) ==
    IF g.worktrees[name].path # NoPath
    THEN [info EXCEPT !.worktree = g.worktrees[name],
                      !.commit = g.worktrees[name].head,
                      !.is_current = is_current(cwd, g.worktrees[name].path),
                      !.dirty = is_dirty(g, name)]
    ELSE info

\* if main_branch and name != main_branch: ahead_main, behind_main
with_main_counts(g, name, main_branch, info) ==
    IF main_branch # None /\ name # main_branch
    THEN [info EXCEPT !.ahead_main = ahead_behind(g.rev_main[name])[1],
                      !.behind_main = ahead_behind(g.rev_main[name])[2]]
    ELSE info

\* if info.worktree: upstream = ...; if upstream: ahead_upstream, behind_upstream
with_upstream_counts(g, name, info) ==
    IF info.worktree.path # NoPath /\ g.upstream[name] # ""
    THEN [info EXCEPT !.ahead_upstream = ahead_behind(g.rev_upstream[name])[1],
                      !.behind_upstream = ahead_behind(g.rev_upstream[name])[2]]
    ELSE info

with_deletion_mut_reason_only(g, name, main_branch, info) ==
    IF eligible(name, main_branch, info)
    THEN [info EXCEPT !.delete_reason = delete_rule(g, name, main_branch)]
    ELSE info

\* the deletion rules of one branch
with_deletion(g, name, main_branch, info) ==
    IF eligible(name, main_branch, info) /\ delete_rule(g, name, main_branch) # None
    THEN [info EXCEPT !.deletable = TRUE,
                      !.delete_reason = delete_rule(g, name, main_branch)]
    ELSE info

\* one iteration of "for name, info in branches.items()": the entries it
\* appends to result (none when the branch is skipped)
discover_branch(g, cwd, name) ==
    LET main_branch == detect_main_branch(g)
        info0 == BranchInfo(name, g.commit[name], g.timestamp[name])
        info1 == with_worktree(g, cwd, name, info0)
        info2 == with_main_counts(g, name, main_branch, info1)
        info3 == with_upstream_counts(g, name, info2)
        info4 == with_deletion(g, name, main_branch, info3)
    IN  IF g.worktrees[name].path = NoPath /\ too_old(g.timestamp[name])
        THEN <<>>
        ELSE <<info4>>

RECURSIVE discover_from(_, _, _)
discover_from(g, cwd, i) ==
    IF i > Len(g.names) THEN <<>>
    ELSE discover_branch(g, cwd, g.names[i]) \o discover_from(g, cwd, i + 1)

discover_repo(g, cwd) == discover_from(g, cwd, 1)

-----------------------------------------------------------------------------
(* The repositories discover_repo is run on *)

\* most commits a rev-list count reports, most lines git cherry prints
MaxAhead == 2
MaxCherry == 2

\* for-each-ref lists refs/heads/ sorted by name
NameOrder == <<"feat", "main", "master">>

\* two worktree directories, the second inside the first
OuterDir == <<"w">>
InnerDir == <<"w", "in">>

\* the upstream of a branch: none configured; configured and gone (rev-list
\* then fails and prints nothing); configured and MaxAhead ahead
Upstreams ==
    { [track |-> "", upstream |-> "", rev |-> <<>>],
      [track |-> "[gone]", upstream |-> "origin/b", rev |-> <<>>],
      [track |-> "[ahead]", upstream |-> "origin/b", rev |-> <<MaxAhead, 0>>] }

\* everything git reports about one branch. committerdate:unix is just
\* older than the cutoff, exactly the cutoff, or the present; status
\* --porcelain prints nothing or a modified file; git cherry prints one
\* mark per commit unique to the branch
BranchFacts ==
    { [ts |-> ts, wt |-> wt, porcelain |-> po, up |-> up, ancestor |-> an,
       cherry |-> ch, rev_main |-> rm] :
        ts \in {cutoff - 1, cutoff, Now}, wt \in {NoPath, InnerDir},
        po \in { <<>>, <<" M file">> },
        up \in Upstreams, an \in BOOLEAN,
        ch \in UNION { [1..n -> {"-", "+"}] : n \in 0..MaxCherry },
        rm \in { <<>>, <<1, MaxAhead>> } }

\* a worktree has a status only if there is one
SubjectFacts == { f \in BranchFacts : f.wt = NoPath => f.porcelain = <<>> }

\* the facts of a repository whose branches are names (a sequence), f[n] the
\* facts of branch n
GitOf(names, f, originHead) ==
    LET S == { names[i] : i \in 1..Len(names) }
    IN  [names |-> names,
         originHead |-> originHead,
         commit |-> [n \in S |-> "c1"],
         timestamp |-> [n \in S |-> f[n].ts],
         worktrees |-> [n \in S |->
             IF f[n].wt = NoPath THEN NoWorktree ELSE Worktree(f[n].wt, "c2", n)],
         porcelain |-> [n \in S |-> f[n].porcelain],
         track |-> [n \in S |-> f[n].up.track],
         upstream |-> [n \in S |-> f[n].up.upstream],
         rev_upstream |-> [n \in S |-> f[n].up.rev],
         ancestor |-> [n \in S |-> f[n].ancestor],
         cherry |-> [n \in S |-> f[n].cherry],
         rev_main |-> [n \in S |-> f[n].rev_main]]

-----------------------------------------------------------------------------
(* GbbApp: the environment *)

\* how often git's state (or the sibling panes' directory) changes, and how
\* many deletions the user requests
MaxGitChanges == 1
MaxDeletes == 1

\* config.repos: two repositories, named after their directories
Repos == << [name |-> "a", path |-> <<"a">>], [name |-> "b", path |-> <<"b">>] >>

\* the linked worktree of branch feat of repository a: a sibling directory
\* of the repository root, as _do_create_worktree lays it out
FeatDir == <<"a.feat">>

\* branch feat of repository a: absent, a bare ref, or checked out in FeatDir
\* with a clean tree, modified files, or untracked files; its upstream is gone
\* (deletable) or not configured
NoFeat == [present |-> FALSE, wt |-> FALSE, gone |-> FALSE, status |-> "clean"]
FeatStates ==
    {NoFeat}
    \cup { [present |-> TRUE, wt |-> FALSE, gone |-> g, status |-> "clean"] :
             g \in BOOLEAN }
    \cup { [present |-> TRUE, wt |-> TRUE, gone |-> g, status |-> st] :
             g \in BOOLEAN, st \in {"clean", "dirty", "untracked"} }

\* the directory the sibling kitty panes agree on; NoPath outside kitty or
\* without consensus
SiblingCwds == {NoPath, <<"b">>}

\* down: the repositories in which every git command fails at present;
\* repos: config.repos
Worlds == [feat : FeatStates, sibling : SiblingCwds, down : {{}}, repos : {Repos}]

\* what git reports about the main branch of a repository: checked out in
\* the repository root, clean, no upstream
MainFacts(root) ==
    [ts |-> Now, wt |-> root, porcelain |-> <<>>,
     up |-> [track |-> "", upstream |-> "", rev |-> <<>>],
     ancestor |-> TRUE, cherry |-> <<>>, rev_main |-> <<>>]

\* ... and about branch feat
FeatFacts(fs) ==
    [ts |-> Now,
     wt |-> IF fs.wt THEN FeatDir ELSE NoPath,
     porcelain |-> IF fs.status = "clean" THEN <<>>
                   ELSE IF fs.status = "dirty" THEN <<" M file">>
                   ELSE <<"?? notes.txt">>,
     up |-> IF fs.gone THEN [track |-> "[gone]", upstream |-> "origin/b", rev |-> <<>>]
            ELSE [track |-> "", upstream |-> "", rev |-> <<>>],
     ancestor |-> FALSE, cherry |-> <<"+">>, rev_main |-> <<1, 0>>]

\* the git facts of a configured repository; a world with a field head is
\* one where repository a has a remote whose HEAD is that branch, in the
\* others symbolic-ref refs/remotes/origin/HEAD prints nothing; a world
\* with a field bare is one where repository a is a bare repository whose
\* branch main, checked out nowhere, is older than the cutoff
RepoFacts(w, name) ==
    LET main == IF name = "a" /\ "bare" \in DOMAIN w
                THEN [MainFacts(<<"a">>) EXCEPT !.wt = NoPath, !.ts = cutoff - 1]
                ELSE MainFacts(<<name>>)
    IN  IF name \in w.down
        THEN GitOf(<<>>, <<>>, "")
        ELSE IF name = "a" /\ w.feat.present
        THEN GitOf(<<"feat", "main">>, ("feat" :> FeatFacts(w.feat)) @@ ("main" :> main),
                   IF "head" \in DOMAIN w THEN w.head ELSE "")
        ELSE GitOf(<<"main">>, ("main" :> main), "")

\* the git facts of the repository at rp.path; a repository configured
\* under another directory than the one of its name holds branch main alone,
\* or, in a world with a field twin that is true, also a branch feat without
\* a worktree whose upstream is gone
RepoFactsOf(w, rp) ==
    IF rp.path = <<rp.name>> THEN RepoFacts(w, rp.name)
    ELSE IF rp.name \in w.down THEN GitOf(<<>>, <<>>, "")
    ELSE IF "twin" \in DOMAIN w /\ w.twin
    THEN GitOf(<<"feat", "main">>,
               ("feat" :> FeatFacts([present |-> TRUE, wt |-> FALSE, gone |-> TRUE,
                                     status |-> "clean"]))
               @@ ("main" :> MainFacts(rp.path)), "")
    ELSE GitOf(<<"main">>, ("main" :> MainFacts(rp.path)), "")

\* cleanup.list_non_ignored_entries: the lines whose top-level component is
\* not an ignore pattern
list_non_ignored_entries(lines, ignore) ==
    SelectSeq(lines, LAMBDA line : line[1] \notin ignore)

-----------------------------------------------------------------------------
(* GbbApp: rows, scope, table *)

\* pins.pin_key: "{repo}:{branch}"
pin_key(repo_name, branch_name) == <<repo_name, branch_name>>

\* the key _populate gives a row: "{repo}:{branch}:{wt_path}"
RowKey(row) == [repo |-> row.repo, branch |-> row.b.name, wt |-> row.b.worktree.path]

RECURSIVE rows_from(_, _)
rows_from(data, i) ==
    IF i > Len(data) THEN <<>>
    ELSE [j \in 1..Len(data[i].branches) |->
             [repo |-> data[i].name, path |-> data[i].path, b |-> data[i].branches[j]]]
         \o rows_from(data, i + 1)

\* _rebuild_rows: _all_rows from repo_data
rebuild_rows(data) == rows_from(data, 1)

scoped_rows_mut_pinned_first(rows, sc, pinned) ==
    LET inscope == IF ~sc.show_all /\ sc.current_repo # None
                   THEN SelectSeq(rows, LAMBDA r : r.repo = sc.current_repo)
                   ELSE rows
        IsPinned(r) == pin_key(r.repo, r.b.name) \in pinned
    IN  SelectSeq(inscope, LAMBDA r : IsPinned(r))
            \o SelectSeq(inscope, LAMBDA r : ~IsPinned(r))

\* _scoped_rows: the rows in scope, the active branch first, then the pinned
scoped_rows(rows, sc, pinned) ==
    LET inscope == IF ~sc.show_all /\ sc.current_repo # None
                   THEN SelectSeq(rows, LAMBDA r : r.repo = sc.current_repo)
                   ELSE rows
        IsActive(r) == sc.active_branch_key = <<r.repo, r.b.name>>
        IsPinned(r) == pin_key(r.repo, r.b.name) \in pinned
        active == SelectSeq(inscope, LAMBDA r : IsActive(r))
        rest == SelectSeq(inscope, LAMBDA r : ~IsActive(r))
    IN  active \o SelectSeq(rest, LAMBDA r : IsPinned(r))
               \o SelectSeq(rest, LAMBDA r : ~IsPinned(r))

\* "query in s" for the queries typed into the filter bar, "" and "fe"
Contains(str, query) == query = "" \/ <<str, query>> \in { <<"feat", "fe">> }

\* _apply_filter: the scoped rows whose branch or repository name contains
\* the query
filter_rows(rows, query) ==
    IF query # ""
    THEN SelectSeq(rows, LAMBDA r : Contains(r.b.name, query) \/ Contains(r.repo, query))
    ELSE rows

\* _populate: table.clear() and one add_row per row
populate(rows) == [i \in 1..Len(rows) |-> RowKey(rows[i])]

\* the rows the table shows after "if self.filtering: _apply_filter(query)
\* else: _populate(self._scoped_rows())"
shown_rows(rows, sc, pinned, flt) ==
    IF flt.filtering
    THEN filter_rows(scoped_rows(rows, sc, pinned), flt.value)
    ELSE scoped_rows(rows, sc, pinned)

\* _data_fingerprint (b.is_default, which the BranchInfo of git.py does not
\* declare, is left out)
data_fingerprint(data) ==
    LET rows == rebuild_rows(data)
    IN  [i \in 1..Len(rows) |->
            << rows[i].repo, rows[i].b.name, rows[i].b.timestamp, rows[i].b.dirty,
               rows[i].b.ahead_upstream, rows[i].b.behind_upstream,
               rows[i].b.ahead_main, rows[i].b.behind_main,
               rows[i].b.deletable, rows[i].b.delete_reason,
               rows[i].b.worktree.path, rows[i].b.commit >>]

\* _update_effective_cwd: the sibling panes' directory, when there is one
update_effective_cwd(w, cwd) == IF w.sibling # NoPath THEN w.sibling ELSE cwd

discover_all_mut_abort(w, cwd, todo) ==
    IF \E k \in 1..Len(todo) : todo[k].name \in w.down
    THEN <<>>
    ELSE SelectSeq([k \in 1..Len(todo) |->
                       [name |-> todo[k].name, path |-> todo[k].path,
                        branches |-> discover_repo(RepoFactsOf(w, todo[k]), cwd)]],
                   LAMBDA e : e.branches # <<>>)

discover_all_mut_keep_empty(w, cwd, todo) ==
    [k \in 1..Len(todo) |->
        [name |-> todo[k].name, path |-> todo[k].path,
         branches |-> discover_repo(RepoFactsOf(w, todo[k]), cwd)]]

\* the (name, path, branches) entries of the repositories at positions idx of
\* Repos whose discovery returns at least one branch
RECURSIVE discover_all(_, _, _)
discover_all(w, cwd, todo) ==
    IF todo = <<>> THEN <<>>
    ELSE LET branches == discover_repo(RepoFactsOf(w, todo[1]), cwd)
         IN  (IF branches # <<>>
              THEN << [name |-> todo[1].name, path |-> todo[1].path,
                       branches |-> branches] >>
              ELSE <<>>)
             \o discover_all(w, cwd, Tail(todo))

-----------------------------------------------------------------------------
(* GbbApp: construction, on_mount, the discovery burst *)

\* most refresh threads alive at once
MaxRefreshThreads == 1

\* the directory the program is started in: the root of repository a
StartCwd == <<"a">>

NoApply == <<>>

\* the discover_repo variables, at rest while the application runs
DiscoverIdle ==
    /\ d_pc = "off"
    /\ d_git = GitOf(<<>>, <<>>, "")
    /\ d_cwd = NoPath
    /\ d_result = <<>>

\* no call of delete_branch, delete_worktree or parse_worktrees is examined
CleanupIdle == c_pc = "off" /\ c_call = <<>> /\ c_git = <<>> /\ c_result = <<>>

ParseIdle == w_pc = "off" /\ w_output = <<>> /\ w_result = <<>>

\* the _data_fingerprint variables, at rest
FingerprintIdle ==
    /\ f_pc = "off"
    /\ f_data = <<>>
    /\ f_change = <<>>
    /\ f_result = <<>>

\* nothing changes, nothing is requested
NoBudget == [git |-> 0, deletes |-> 0, runs |-> 0, fetches |-> 0, outages |-> 0]

\* GbbApp.__init__
AppConstructed(cwd) ==
    /\ app_pc = "init"
    /\ repo_data = <<>>
    /\ all_rows = <<>>
    /\ table = <<>>
    /\ cursor = 0
    /\ scope = [show_all |-> FALSE, current_repo |-> None, cwd |-> cwd,
                effective_cwd |-> cwd, loading_others |-> FALSE,
                active_branch_key |-> <<>>]
    /\ filter = [filtering |-> FALSE, value |-> ""]
    /\ pins = {}
    /\ confirm = [pending |-> <<>>, bar |-> FALSE, modal |-> <<>>]
    /\ discovery = [pc |-> "idle", repos |-> <<>>, data |-> <<>>]
    /\ refresh = <<>>
    /\ fetch = <<>>
    /\ check = <<>>
    /\ deletes = <<>>
    /\ create = [screen |-> <<>>, runs |-> <<>>]
    /\ calls = <<>>
    /\ last_apply = NoApply

Init ==
    /\ DiscoverIdle
    /\ FingerprintIdle
    /\ CleanupIdle
    /\ ParseIdle
    /\ world \in Worlds
    /\ budget = [git |-> MaxGitChanges, deletes |-> MaxDeletes,
                 runs |-> MaxRefreshThreads, fetches |-> 0, outages |-> 0]
    /\ AppConstructed(StartCwd)

drop(seq, i) == SubSeq(seq, 1, i - 1) \o SubSeq(seq, i + 1, Len(seq))

start_exclusive_mut_no_cancel(runs, run) == runs \o <<run>>

\* @work(exclusive=True): the runs of the group are cancelled, a new one starts
start_exclusive(runs, run) ==
    [i \in 1..Len(runs) |-> [runs[i] EXCEPT !.cancelled = TRUE]] \o <<run>>

\* a run of _refresh_repos; by names what started it, seen counts the delete
\* calls git had served when the run read the repositories
refresh_run(by) ==
    [pc |-> "running", cancelled |-> FALSE, data |-> <<>>, by |-> by, seen |-> 0]

\* git's state, or the directory of the sibling panes, changes
EnvChange ==
    /\ budget.git > 0
    /\ \/ \E fs \in FeatStates \ {world.feat} : world' = [world EXCEPT !.feat = fs]
       \/ \E d \in SiblingCwds \ {world.sibling} : world' = [world EXCEPT !.sibling = d]
    /\ budget' = [budget EXCEPT !.git = @ - 1]
    /\ last_apply' = NoApply
    /\ UNCHANGED <<d_vars, ui_vars, worker_vars, calls>>

\* on_mount: the first repository containing cwd is the current one and is
\* discovered at once; the others are left to the discovery burst
OnMount ==
    /\ app_pc = "init"
    /\ app_pc' = "running"
    /\ LET eff == update_effective_cwd(world, scope.effective_cwd)
           mine == SelectSeq(world.repos,   \* cwd.relative_to(rp) succeeds
                            LAMBDA rp : scope.cwd = rp.path
                                            \/ StartsWithDir(scope.cwd, rp.path))
           current == IF mine # <<>> THEN mine[1].name ELSE None
           sc == [scope EXCEPT !.effective_cwd = eff,
                               !.current_repo = current,
                               !.show_all = (current = None)]
           data == IF mine # <<>> THEN discover_all(world, eff, <<mine[1]>>) ELSE <<>>
           others == IF mine # <<>>
                     THEN SelectSeq(world.repos, LAMBDA rp : rp # mine[1])
                     ELSE world.repos
       IN  /\ repo_data' = data
           /\ all_rows' = rebuild_rows(data)
           /\ IF mine # <<>>
              THEN /\ table' = populate(scoped_rows(rebuild_rows(data), sc, pins))
                   /\ cursor' = 0
              ELSE UNCHANGED <<table, cursor>>
           /\ scope' = [sc EXCEPT !.loading_others = (others # <<>>)]
           /\ discovery' = IF others # <<>>
                           THEN [pc |-> "running", repos |-> others, data |-> <<>>]
                           ELSE discovery
    /\ last_apply' = NoApply
    /\ fetch' = start_exclusive(fetch, [pc |-> "running", cancelled |-> FALSE])
    /\ UNCHANGED <<d_vars, env_vars, filter, pins, confirm, refresh, check, deletes,
                   calls, create>>

\* _discover_repos_background, on its thread: discover every repository,
\* keep those with branches, hand them to _merge_discovered. The run is
\* cancelled by workers.cancel_all() alone, as the application exits; a
\* cancelled run returns with nothing handed over.
DiscoverReposBackground ==
    /\ discovery.pc = "running"
    /\ LET eff == update_effective_cwd(world, scope.effective_cwd)
       IN  /\ scope' = [scope EXCEPT !.effective_cwd = eff]
           /\ discovery' = IF app_pc = "exited"
                           THEN [discovery EXCEPT !.pc = "cancelled"]
                           ELSE [discovery EXCEPT
                                    !.pc = "posted",
                                    !.data = discover_all(world, eff, discovery.repos)]
    /\ last_apply' = NoApply
    /\ UNCHANGED <<d_vars, env_vars, app_pc, repo_data, all_rows, table, cursor,
                   filter, pins, confirm, refresh, fetch, check, deletes, calls, create>>

\* the entries of new_data whose name repo_data does not hold yet
merge_new(data, new_data) ==
    SelectSeq(new_data,
              LAMBDA e : \A i \in 1..Len(data) : data[i].name # e.name)

MergeDiscovered_mut_keep_loading ==
    /\ app_pc = "running"
    /\ discovery.pc = "posted"
    /\ discovery' = [discovery EXCEPT !.pc = "done", !.data = <<>>]
    /\ LET data == repo_data \o merge_new(repo_data, discovery.data)
       IN  /\ repo_data' = data
           /\ all_rows' = rebuild_rows(data)
           /\ IF scope.show_all \/ scope.current_repo = None
              THEN /\ table' = populate(scoped_rows(rebuild_rows(data), scope, pins))
                   /\ cursor' = 0
              ELSE UNCHANGED <<table, cursor>>
    /\ last_apply' = NoApply
    /\ UNCHANGED <<d_vars, env_vars, app_pc, scope, filter, pins, confirm, refresh, fetch,
                   check, deletes, calls, create>>

\* _merge_discovered, on the coordinating thread
MergeDiscovered ==
    /\ app_pc = "running"
    /\ discovery.pc = "posted"
    /\ discovery' = [discovery EXCEPT !.pc = "done", !.data = <<>>]
    /\ LET data == repo_data \o merge_new(repo_data, discovery.data)
           sc == [scope EXCEPT !.loading_others = FALSE]
       IN  /\ repo_data' = data
           /\ all_rows' = rebuild_rows(data)
           /\ scope' = sc
           /\ IF scope.show_all \/ scope.current_repo = None
              THEN /\ table' = populate(scoped_rows(rebuild_rows(data), sc, pins))
                   /\ cursor' = 0
              ELSE UNCHANGED <<table, cursor>>
    /\ last_apply' = NoApply
    /\ UNCHANGED <<d_vars, env_vars, app_pc, filter, pins, confirm, refresh, fetch, check,
                   deletes, calls, create>>

-----------------------------------------------------------------------------
(* GbbApp: the periodic refresh *)

\* which keys reach the application's bindings: no modal screen is up and
\* on_key has not consumed the key for the confirmation bar
BarUp == confirm.pending # <<>> /\ confirm.bar
BindingsLive ==
    app_pc = "running" /\ confirm.modal = <<>> /\ create.screen = <<>> /\ ~BarUp
TableFocused == BindingsLive /\ ~filter.filtering

tick_allowed_mut_while_loading(pending, loading, data) ==
    pending = <<>> /\ data # <<>>

\* _refresh_tick, lines 565-570: nothing while a deletion is pending, while
\* the other repositories load, or before any repository is known
tick_allowed(pending, loading, data) ==
    pending = <<>> /\ ~loading /\ data # <<>>

\* _refresh_tick
RefreshTick ==
    /\ app_pc = "running"
    /\ tick_allowed(confirm.pending, scope.loading_others, repo_data)
    /\ Len(refresh) < budget.runs
    /\ refresh' = start_exclusive(refresh, refresh_run("tick"))
    /\ last_apply' = NoApply
    /\ UNCHANGED <<d_vars, env_vars, ui_vars, discovery, fetch, check, deletes, calls, create>>

\* the repositories repo_data names, as _refresh_repos captures them
repo_paths(data) == [i \in 1..Len(data) |-> [name |-> data[i].name, path |-> data[i].path]]

RefreshRepos_mut_direct(i) ==
    /\ refresh[i].pc = "running"
    /\ LET eff == update_effective_cwd(world, scope.effective_cwd)
           data == discover_all(world, eff, repo_paths(repo_data))
       IN  /\ scope' = [scope EXCEPT !.effective_cwd = eff]
           /\ repo_data' = data
           /\ all_rows' = rebuild_rows(data)
    /\ refresh' = drop(refresh, i)
    /\ last_apply' = NoApply
    /\ UNCHANGED <<d_vars, env_vars, app_pc, table, cursor, filter, pins, confirm,
                   discovery, fetch, check, deletes, calls, create>>

\* _refresh_repos, on its thread: rediscover the repositories of repo_data;
\* a cancelled run ends, another hands its snapshot to _apply_refresh
RefreshRepos(i) ==
    /\ refresh[i].pc = "running"
    /\ LET eff == update_effective_cwd(world, scope.effective_cwd)
       IN  /\ scope' = [scope EXCEPT !.effective_cwd = eff]
           /\ refresh' = IF refresh[i].cancelled
                         THEN drop(refresh, i)
                         ELSE [refresh EXCEPT
                                  ![i].pc = "posted",
                                  ![i].seen = Len(calls),
                                  ![i].data = discover_all(world, eff, repo_paths(repo_data))]
    /\ last_apply' = NoApply
    /\ UNCHANGED <<d_vars, env_vars, app_pc, repo_data, all_rows, table, cursor,
                   filter, pins, confirm, discovery, fetch, check, deletes, calls, create>>

refresh_discarded_mut_never(new_data, data) == FALSE

\* _apply_refresh, lines 611-613: a snapshot with the fingerprint of the
\* present one is discarded
refresh_discarded(new_data, data) == data_fingerprint(new_data) = data_fingerprint(data)

\* the key of the row under the cursor, if any
cursor_key_of(tbl, idx) == IF Len(tbl) > 0 /\ idx < Len(tbl) THEN <<tbl[idx + 1]>> ELSE <<>>

Min(x, y) == IF x < y THEN x ELSE y

reanchor_mut_no_clamp(tbl, key, idx) ==
    IF key # <<>> /\ \E i \in 1..Len(tbl) : tbl[i] = key[1]
    THEN (CHOOSE i \in 1..Len(tbl) :
              tbl[i] = key[1] /\ \A j \in 1..(i - 1) : tbl[j] # key[1]) - 1
    ELSE idx

reanchor_mut_clamp(tbl, key, idx) == IF Len(tbl) > 0 THEN Min(idx, Len(tbl) - 1) ELSE 0

\* the cursor after a repopulation: on the row with the remembered key, else
\* on the old index clamped to the table
reanchor(tbl, key, idx) ==
    IF key # <<>> /\ \E i \in 1..Len(tbl) : tbl[i] = key[1]
    THEN (CHOOSE i \in 1..Len(tbl) :
              tbl[i] = key[1] /\ \A j \in 1..(i - 1) : tbl[j] # key[1]) - 1
    ELSE IF Len(tbl) > 0 THEN Min(idx, Len(tbl) - 1) ELSE 0

\* _apply_refresh, lines 626-630: the last repository holding a current branch
RECURSIVE current_repo_after(_, _, _)
current_repo_after(data, i, cur) ==
    IF i > Len(data) THEN cur
    ELSE current_repo_after(data, i + 1,
             IF \E j \in 1..Len(data[i].branches) : data[i].branches[j].is_current
             THEN data[i].name ELSE cur)

\* _apply_refresh, on the coordinating thread; last_apply remembers the
\* snapshot it was handed and the state it found
ApplyRefresh(i) ==
    /\ app_pc = "running"
    /\ refresh[i].pc = "posted"
    /\ refresh' = drop(refresh, i)
    /\ last_apply' = << [run |-> refresh[i],
                         new_data |-> refresh[i].data, repo_data |-> repo_data,
                         all_rows |-> all_rows, table |-> table, cursor |-> cursor,
                         scope |-> scope, filter |-> filter, confirm |-> confirm] >>
    /\ LET new_data == refresh[i].data
           sc == [scope EXCEPT !.current_repo =
                                   current_repo_after(new_data, 1, scope.current_repo)]
           tbl == populate(shown_rows(rebuild_rows(new_data), sc, pins, filter))
       IN  IF confirm.pending # <<>> \/ refresh_discarded(new_data, repo_data)
           THEN UNCHANGED <<repo_data, all_rows, scope, table, cursor>>
           ELSE /\ repo_data' = new_data
                /\ all_rows' = rebuild_rows(new_data)
                /\ scope' = sc
                /\ table' = tbl
                /\ cursor' = reanchor(tbl, cursor_key_of(table, cursor), cursor)
    /\ UNCHANGED <<d_vars, env_vars, app_pc, filter, pins, confirm, discovery, fetch, check,
                   deletes, calls, create>>

-----------------------------------------------------------------------------
(* GbbApp: fetching *)

\* action_fetch_refresh: fetch the repositories of repo_data, if any
ActionFetchRefresh ==
    /\ TableFocused
    /\ budget.fetches > 0
    /\ repo_data # <<>>
    /\ fetch' = start_exclusive(fetch, [pc |-> "running", cancelled |-> FALSE])
    /\ budget' = [budget EXCEPT !.fetches = @ - 1]
    /\ last_apply' = NoApply
    /\ UNCHANGED <<d_vars, world, ui_vars, discovery, refresh, check, deletes, calls, create>>

\* _fetch_repos_background, on its thread: a cancelled run ends, another
\* hands over to _post_fetch_refresh
FetchRepos(i) ==
    /\ fetch[i].pc = "running"
    /\ fetch' = IF fetch[i].cancelled
                THEN drop(fetch, i)
                ELSE [fetch EXCEPT ![i].pc = "posted"]
    /\ last_apply' = NoApply
    /\ UNCHANGED <<d_vars, env_vars, ui_vars, discovery, refresh, check, deletes, calls,
                   create>>

post_fetch_allowed_mut_while_loading(pending, loading) == pending = <<>>

\* _post_fetch_refresh, lines 554-555: nothing while a deletion is pending or
\* the other repositories load
post_fetch_allowed(pending, loading) == pending = <<>> /\ ~loading

\* _post_fetch_refresh, on the coordinating thread
PostFetchRefresh(i) ==
    /\ fetch[i].pc = "posted"
    /\ fetch' = drop(fetch, i)
    /\ IF post_fetch_allowed(confirm.pending, scope.loading_others)
       THEN /\ Len(refresh) < budget.runs
            /\ refresh' = start_exclusive(refresh, refresh_run("fetch"))
       ELSE UNCHANGED refresh
    /\ last_apply' = NoApply
    /\ UNCHANGED <<d_vars, env_vars, ui_vars, discovery, check, deletes, calls, create>>

-----------------------------------------------------------------------------
(* GbbApp: cursor, scope, filter *)

\* action_cursor_down (priority binding: it also runs while the confirmation
\* bar is up)
ActionCursorDown ==
    /\ app_pc = "running" /\ confirm.modal = <<>> /\ create.screen = <<>>
    /\ Len(table) > 0
    /\ cursor' = IF cursor >= Len(table) - 1 THEN 0 ELSE cursor + 1
    /\ last_apply' = NoApply
    /\ UNCHANGED <<d_vars, env_vars, app_pc, repo_data, all_rows, table, scope, filter,
                   pins, confirm, worker_vars, calls>>

\* action_cursor_up
ActionCursorUp ==
    /\ app_pc = "running" /\ confirm.modal = <<>> /\ create.screen = <<>>
    /\ Len(table) > 0
    /\ cursor' = IF cursor <= 0 THEN Len(table) - 1 ELSE cursor - 1
    /\ last_apply' = NoApply
    /\ UNCHANGED <<d_vars, env_vars, app_pc, repo_data, all_rows, table, scope, filter,
                   pins, confirm, worker_vars, calls>>

\* action_toggle_scope
ActionToggleScope ==
    /\ TableFocused
    /\ scope.current_repo # None
    /\ LET sc == [scope EXCEPT !.show_all = ~scope.show_all]
       IN  /\ scope' = sc
           /\ table' = populate(shown_rows(all_rows, sc, pins, filter))
           /\ cursor' = 0
    /\ last_apply' = NoApply
    /\ UNCHANGED <<d_vars, env_vars, app_pc, repo_data, all_rows, filter, pins, confirm,
                   worker_vars, calls>>

\* action_start_filter; emptying a bar that still held a query raises
\* Input.Changed, hence _apply_filter("")
ActionStartFilter ==
    /\ TableFocused
    /\ filter' = [filtering |-> TRUE, value |-> ""]
    /\ IF filter.value # ""
       THEN /\ table' = populate(filter_rows(scoped_rows(all_rows, scope, pins), ""))
            /\ cursor' = 0
       ELSE UNCHANGED <<table, cursor>>
    /\ last_apply' = NoApply
    /\ UNCHANGED <<d_vars, env_vars, app_pc, repo_data, all_rows, scope, pins, confirm,
                   worker_vars, calls>>

\* on_input_changed: the user edits the query
OnInputChanged ==
    /\ BindingsLive /\ filter.filtering
    /\ \E q \in {"", "fe"} \ {filter.value} :
          /\ filter' = [filter EXCEPT !.value = q]
          /\ table' = populate(filter_rows(scoped_rows(all_rows, scope, pins), q))
    /\ cursor' = 0
    /\ last_apply' = NoApply
    /\ UNCHANGED <<d_vars, env_vars, app_pc, repo_data, all_rows, scope, pins, confirm,
                   worker_vars, calls>>

\* on_input_submitted: the bar closes, the table keeps the filtered rows
OnInputSubmitted ==
    /\ BindingsLive /\ filter.filtering
    /\ filter' = [filter EXCEPT !.filtering = FALSE]
    /\ last_apply' = NoApply
    /\ UNCHANGED <<d_vars, env_vars, app_pc, repo_data, all_rows, table, cursor, scope,
                   pins, confirm, worker_vars, calls>>

-----------------------------------------------------------------------------
(* GbbApp: deleting a branch *)

\* _get_cursor_row_data: the first row of _all_rows with the repository and
\* branch of the key under the cursor
cursor_row_data(rows, tbl, idx) ==
    IF Len(tbl) = 0 THEN <<>>
    ELSE LET key == tbl[idx + 1]
             hits == SelectSeq(rows, LAMBDA r : r.repo = key.repo /\ r.b.name = key.branch)
         IN  IF hits # <<>> THEN <<hits[1]>> ELSE <<>>

\* action_toggle_pin: the pin of the branch under the cursor is set or
\* cleared and the table is repopulated from _scoped_rows
ActionTogglePin ==
    /\ TableFocused
    /\ confirm.pending = <<>>
    /\ cursor_row_data(all_rows, table, cursor) # <<>>
    /\ LET row == cursor_row_data(all_rows, table, cursor)[1]
           key == pin_key(row.repo, row.b.name)
           pinned == IF key \in pins THEN pins \ {key} ELSE pins \cup {key}
       IN  /\ pins' = pinned
           /\ table' = populate(scoped_rows(all_rows, scope, pinned))
           /\ cursor' = 0
    /\ last_apply' = NoApply
    /\ UNCHANGED <<d_vars, env_vars, app_pc, repo_data, all_rows, scope, filter, confirm,
                   worker_vars, calls>>

\* action_delete_branch, lines 786-792: the row is branch main or master
is_main_row(row) == row.b.name \in {"main", "master"}

\* _execute_delete: a _do_delete run; yes records whether the user answered
\* 'y' for it, checked what the worktree check had found, note the last
\* notification _do_delete posted ("Error: ..." or "Deleted ...")
delete_run(row, yes, checked) ==
    [repo |-> row.repo, path |-> row.path, branch |-> row.b,
     pc |-> IF row.b.worktree # NoWorktree THEN "worktree" ELSE "branch", yes |-> yes, checked |-> checked, note |-> ""]

\* action_delete_branch: refuse the current and the main branch; check the
\* worktree of a branch that has one; delete a deletable branch at once; ask
\* on the confirmation bar for the rest
ActionDeleteBranch ==
    /\ TableFocused
    /\ confirm.pending = <<>>
    /\ budget.deletes > 0
    /\ LET data == cursor_row_data(all_rows, table, cursor)
       IN  /\ data # <<>>
           /\ ~data[1].b.is_current
           /\ ~is_main_row(data[1])
           /\ \/ /\ data[1].b.worktree # NoWorktree
                 /\ confirm' = [confirm EXCEPT !.pending = data]
                 /\ check' = check \o << [pc |-> "running", row |-> data[1],
                                          dirty |-> FALSE, entries |-> <<>>] >>
                 /\ UNCHANGED deletes
              \/ /\ data[1].b.worktree = NoWorktree
                 /\ data[1].b.deletable
                 /\ deletes' = deletes \o <<delete_run(data[1], FALSE, <<>>)>>
                 /\ UNCHANGED <<confirm, check>>
              \/ /\ data[1].b.worktree = NoWorktree
                 /\ ~data[1].b.deletable
                 /\ confirm' = [confirm EXCEPT !.pending = data, !.bar = TRUE]
                 /\ UNCHANGED <<check, deletes>>
    /\ budget' = [budget EXCEPT !.deletes = @ - 1]
    /\ last_apply' = NoApply
    /\ UNCHANGED <<d_vars, world, app_pc, repo_data, all_rows, table, cursor, scope,
                   filter, pins, discovery, fetch, refresh, calls, create>>

\* _prepare_worktree_delete, on its thread
PrepareWorktreeDelete(i) ==
    /\ check[i].pc = "running"
    /\ LET \* git status --porcelain in the worktree; no output when the
           \* directory is gone
           status_porcelain ==
               IF "a" \notin world.down /\ world.feat.present /\ world.feat.wt
                  /\ check[i].row.b.worktree.path = FeatDir
               THEN FeatFacts(world.feat).porcelain ELSE <<>>
           \* ls-files --others --exclude-standard there, one path per line
           others ==
               IF "a" \notin world.down /\ world.feat.wt /\ world.feat.status = "untracked"
               THEN << <<"notes.txt">> >> ELSE <<>>
           \* config.worktree_ignore
           worktree_ignore == {"node_modules", ".venv"}
       IN  check' = [check EXCEPT
                        ![i].pc = "posted",
                        ![i].dirty = status_porcelain # <<>>,
                        ![i].entries = list_non_ignored_entries(others, worktree_ignore)]
    /\ last_apply' = NoApply
    /\ UNCHANGED <<d_vars, env_vars, ui_vars, discovery, fetch, refresh, deletes, calls,
                   create>>

dialog_reasons_mut_no_dirty(branch, dirty, entries) ==
    (IF entries # <<>> THEN {"untracked files"} ELSE {})
    \cup (IF ~branch.deletable THEN {"not detected as merged"} ELSE {})

\* _show_delete_dialog, lines 1019-1025
dialog_reasons(branch, dirty, entries) ==
    (IF dirty THEN {"uncommitted changes"} ELSE {})
    \cup (IF entries # <<>> THEN {"untracked files"} ELSE {})
    \cup (IF ~branch.deletable THEN {"not detected as merged"} ELSE {})

\* _show_delete_dialog, on the coordinating thread: delete at once when there
\* is no reason to ask, else push the confirmation screen
ShowDeleteDialog(i) ==
    /\ check[i].pc = "posted"
    /\ check' = drop(check, i)
    /\ LET c == check[i]
           checked == << [dirty |-> c.dirty, entries |-> c.entries] >>
       IN  IF dialog_reasons(c.row.b, c.dirty, c.entries) = {}
           THEN /\ confirm' = [confirm EXCEPT !.pending = <<>>]
                /\ deletes' = deletes \o <<delete_run(c.row, FALSE, checked)>>
           ELSE /\ confirm' = [confirm EXCEPT
                                  !.modal = << [row |-> c.row, checked |-> checked] >>]
                /\ UNCHANGED deletes
    /\ last_apply' = NoApply
    /\ UNCHANGED <<d_vars, env_vars, app_pc, repo_data, all_rows, table, cursor, scope,
                   filter, pins, discovery, fetch, refresh, calls, create>>

DeleteConfirmKey_mut_keep_pending ==
    /\ app_pc = "running"
    /\ confirm.modal # <<>>
    /\ \E key \in {"y", "n", "escape"} :
          /\ confirm' = [confirm EXCEPT !.modal = <<>>]
          /\ deletes' = IF key = "y"
                        THEN deletes \o <<delete_run(confirm.modal[1].row, TRUE,
                                                     confirm.modal[1].checked)>>
                        ELSE deletes
    /\ last_apply' = NoApply
    /\ UNCHANGED <<d_vars, env_vars, app_pc, repo_data, all_rows, table, cursor, scope,
                   filter, pins, discovery, fetch, refresh, check, calls, create>>

\* DeleteConfirmScreen.on_key and on_result: 'y' confirms, 'n' and escape
\* decline
DeleteConfirmKey ==
    /\ app_pc = "running"
    /\ confirm.modal # <<>>
    /\ \E key \in {"y", "n", "escape"} :
          /\ confirm' = [confirm EXCEPT !.pending = <<>>, !.modal = <<>>]
          /\ deletes' = IF key = "y"
                        THEN deletes \o <<delete_run(confirm.modal[1].row, TRUE,
                                                     confirm.modal[1].checked)>>
                        ELSE deletes
    /\ last_apply' = NoApply
    /\ UNCHANGED <<d_vars, env_vars, app_pc, repo_data, all_rows, table, cursor, scope,
                   filter, pins, discovery, fetch, refresh, check, calls, create>>

\* on_key while the confirmation bar is up
OnKeyConfirmBar ==
    /\ app_pc = "running"
    /\ confirm.modal = <<>>
    /\ BarUp
    /\ \E key \in {"y", "n", "escape"} :
          /\ confirm' = [confirm EXCEPT !.pending = <<>>, !.bar = FALSE]
          /\ deletes' = IF key = "y"
                        THEN deletes \o <<delete_run(confirm.pending[1], TRUE, <<>>)>>
                        ELSE deletes
    /\ last_apply' = NoApply
    /\ UNCHANGED <<d_vars, env_vars, app_pc, repo_data, all_rows, table, cursor, scope,
                   filter, pins, discovery, fetch, refresh, check, calls, create>>

\* action_cancel: escape dismisses a pending confirmation, else closes the
\* filter (else the application exits)
ActionCancel ==
    /\ BindingsLive
    /\ \/ /\ confirm.pending # <<>>
          /\ confirm' = [confirm EXCEPT !.pending = <<>>, !.bar = FALSE]
          /\ UNCHANGED <<filter, table, cursor>>
       \/ /\ confirm.pending = <<>>
          /\ filter.filtering
          /\ filter' = [filtering |-> FALSE, value |-> ""]
          /\ table' = populate(scoped_rows(all_rows, scope, pins))
          /\ cursor' = 0
          /\ UNCHANGED confirm
    /\ last_apply' = NoApply
    /\ UNCHANGED <<d_vars, env_vars, app_pc, repo_data, all_rows, scope, pins,
                   worker_vars, calls>>

\* action_quit_app, and action_cancel with nothing pending and no filter
\* open: workers.cancel_all() and exit()
ActionQuitApp ==
    /\ TableFocused
    /\ app_pc' = "exited"
    /\ refresh' = [i \in 1..Len(refresh) |-> [refresh[i] EXCEPT !.cancelled = TRUE]]
    /\ fetch' = [i \in 1..Len(fetch) |-> [fetch[i] EXCEPT !.cancelled = TRUE]]
    /\ last_apply' = NoApply
    /\ UNCHANGED <<d_vars, env_vars, repo_data, all_rows, table, cursor, scope, filter,
                   pins, confirm, discovery, check, deletes, create, calls>>

after_worktree_mut_continue(err) == "branch"

\* _do_delete, lines 1059-1061: an error of delete_worktree ends the deletion
after_worktree(err) == IF err THEN "done" ELSE "branch"

\* _do_delete, lines 1057-1061: delete_worktree
DoDeleteWorktree(i) ==
    /\ deletes[i].pc = "worktree"
    /\ LET \* git worktree remove: refused for a missing worktree and for one
           \* holding modified or untracked files
           err == \/ "a" \in world.down
                  \/ ~(world.feat.present /\ world.feat.wt /\ world.feat.status = "clean"
                       /\ deletes[i].branch.worktree.path = FeatDir)
       IN  /\ calls' = Append(calls, [op |-> "delete_worktree", req |-> i, err |-> err])
           /\ world' = IF err THEN world
                       ELSE [world EXCEPT !.feat.wt = FALSE, !.feat.status = "clean"]
           /\ deletes' = [deletes EXCEPT ![i].pc = after_worktree(err),
                                          ![i].note = IF err THEN "Error" ELSE @]
    /\ last_apply' = NoApply
    /\ UNCHANGED <<d_vars, budget, ui_vars, discovery, fetch, refresh, check, create>>

after_branch_mut_remove(err) == "remove"

\* _do_delete, lines 1063-1066: an error of delete_branch ends the deletion,
\* else _remove_row is posted
after_branch(err) == IF err THEN "done" ELSE "remove"

\* _do_delete, lines 1062-1066: delete_branch
DoDeleteBranch(i) ==
    /\ deletes[i].pc = "branch"
    /\ LET \* git branch -D: refused for a missing branch and for one checked
           \* out in a worktree, in the repository at the row's path
           home == deletes[i].path = <<deletes[i].repo>>
           err == \/ deletes[i].repo \in world.down
                  \/ deletes[i].branch.name # "feat"
                  \/ home /\ ~(deletes[i].repo = "a"
                               /\ world.feat.present /\ ~world.feat.wt)
                  \/ ~home /\ ~("twin" \in DOMAIN world /\ world.twin)
       IN  /\ calls' = Append(calls, [op |-> "delete_branch", req |-> i, err |-> err])
           /\ world' = IF err THEN world
                       ELSE IF home THEN [world EXCEPT !.feat = NoFeat]
                       ELSE [world EXCEPT !.twin = FALSE]
           /\ deletes' = [deletes EXCEPT ![i].pc = after_branch(err),
                                          ![i].note = IF err THEN "Error" ELSE @]
    /\ last_apply' = NoApply
    /\ UNCHANGED <<d_vars, budget, ui_vars, discovery, fetch, refresh, check, create>>

\* _remove_row: the repo_data entry without the branch
remove_branch_mut_drop_repo(data, repo, name) ==
    SelectSeq(data, LAMBDA e : e.name # repo)

remove_branch(data, repo, name) ==
    LET hits == { i \in 1..Len(data) : data[i].name = repo }
    IN  IF hits = {} THEN data
        ELSE LET i == CHOOSE k \in hits : \A j \in hits : k <= j
             IN  [data EXCEPT ![i].branches =
                                  SelectSeq(@, LAMBDA b : b.name # name)]

\* _remove_row, on the coordinating thread
RemoveRow(i) ==
    /\ deletes[i].pc = "remove"
    /\ deletes' = [deletes EXCEPT ![i].pc = "done", ![i].note = "Deleted"]
    /\ LET rows == SelectSeq(all_rows,
                             LAMBDA r : ~(r.repo = deletes[i].repo
                                          /\ r.b.name = deletes[i].branch.name))
       IN  /\ all_rows' = rows
           /\ repo_data' = remove_branch(repo_data, deletes[i].repo, deletes[i].branch.name)
           /\ table' = populate(shown_rows(rows, scope, pins, filter))
           /\ cursor' = 0
    /\ last_apply' = NoApply
    /\ UNCHANGED <<d_vars, env_vars, app_pc, scope, filter, pins, confirm, discovery, fetch,
                   refresh, check, calls, create>>

-----------------------------------------------------------------------------
(* GbbApp: creating a worktree *)

\* most worktrees the user asks for
MaxCreates == 1

\* action_create_worktree: push the CreateWorktreeScreen for the repository
\* of the row under the cursor, when its main branch is detected. The user
\* asks on rows of repository a, the one whose branches the environment
\* varies.
ActionCreateWorktree ==
    /\ TableFocused
    /\ confirm.pending = <<>>
    /\ Len(create.runs) < MaxCreates
    /\ LET data == cursor_row_data(all_rows, table, cursor)
       IN  /\ data # <<>>
           /\ data[1].repo = "a"
           /\ detect_main_branch(RepoFactsOf(world, [name |-> data[1].repo,
                                                     path |-> data[1].path])) # None
           /\ create' = [create EXCEPT
                            !.screen = << [repo |-> data[1].repo,
                                           path |-> data[1].path] >>]
    /\ last_apply' = NoApply
    /\ UNCHANGED <<d_vars, env_vars, ui_vars, discovery, refresh, fetch, check, deletes,
                   calls>>

\* on_result of the CreateWorktreeScreen: None when the user leaves it, else
\* the branch name typed (feat) and the base; _do_create_worktree starts
CreateWorktreeResult ==
    /\ app_pc = "running"
    /\ create.screen # <<>>
    /\ \E result \in {<<>>, <<"feat">>} :
          create' = [screen |-> <<>>,
                     runs |-> IF result = <<>> THEN create.runs
                              ELSE start_exclusive(create.runs,
                                       [pc |-> "running", cancelled |-> FALSE,
                                        repo |-> create.screen[1].repo,
                                        path |-> create.screen[1].path,
                                        branch_name |-> result[1]])]
    /\ last_apply' = NoApply
    /\ UNCHANGED <<d_vars, env_vars, ui_vars, discovery, refresh, fetch, check, deletes,
                   calls>>

\* git.create_worktree(repo_path, "feat", base, FeatDir): what may become
\* of branch feat, and whether an error is returned. git refuses in a
\* repository where it fails; it creates the branch and its worktree when
\* the branch does not exist; for a branch that exists it may refuse or
\* check the branch out in the new worktree.
create_worktree(w) ==
    IF "a" \in w.down THEN { [err |-> TRUE, feat |-> w.feat] }
    ELSE IF ~w.feat.present
    THEN { [err |-> FALSE,
            feat |-> [present |-> TRUE, wt |-> TRUE, gone |-> FALSE, status |-> "clean"]] }
    ELSE { [err |-> TRUE, feat |-> w.feat],
           [err |-> FALSE, feat |-> [w.feat EXCEPT !.wt = TRUE, !.status = "clean"]] }

\* _do_create_worktree, on its thread: nothing when the directory exists or
\* create_worktree fails, else _post_create_worktree is posted
DoCreateWorktree(i) ==
    /\ create.runs[i].pc = "running"
    /\ IF world.feat.wt
       THEN /\ create' = [create EXCEPT !.runs[i].pc = "done"]
            /\ UNCHANGED <<world, scope>>
       ELSE \E out \in create_worktree(world) :
               /\ world' = [world EXCEPT !.feat = out.feat]
               /\ IF out.err
                  THEN /\ create' = [create EXCEPT !.runs[i].pc = "done"]
                       /\ UNCHANGED scope
                  ELSE /\ create' = [create EXCEPT !.runs[i].pc = "posted"]
                       /\ scope' = [scope EXCEPT !.effective_cwd =
                                        update_effective_cwd(world, scope.effective_cwd)]
    /\ last_apply' = NoApply
    /\ UNCHANGED <<d_vars, budget, app_pc, repo_data, all_rows, table, cursor, filter,
                   pins, confirm, discovery, refresh, fetch, check, deletes, calls>>

\* _post_create_worktree, on the coordinating thread: _refresh_repos()
PostCreateWorktree(i) ==
    /\ create.runs[i].pc = "posted"
    /\ Len(refresh) < budget.runs
    /\ create' = [create EXCEPT !.runs[i].pc = "done"]
    /\ refresh' = start_exclusive(refresh, refresh_run("create"))
    /\ last_apply' = NoApply
    /\ UNCHANGED <<d_vars, env_vars, ui_vars, discovery, fetch, check, deletes, calls>>

-----------------------------------------------------------------------------
(* Spec: the application, for as long as the fetch on_mount starts has not *)
(* returned                                                                *)

Next ==
    \/ EnvChange
    \/ OnMount
    \/ DiscoverReposBackground
    \/ MergeDiscovered
    \/ RefreshTick
    \/ \E i \in 1..Len(refresh) : RefreshRepos(i)
    \/ \E i \in 1..Len(refresh) : ApplyRefresh(i)
    \/ ActionCursorDown
    \/ ActionCursorUp
    \/ ActionToggleScope
    \/ ActionStartFilter
    \/ OnInputChanged
    \/ OnInputSubmitted
    \/ ActionDeleteBranch
    \/ \E i \in 1..Len(check) : PrepareWorktreeDelete(i)
    \/ \E i \in 1..Len(check) : ShowDeleteDialog(i)
    \/ DeleteConfirmKey
    \/ OnKeyConfirmBar
    \/ ActionCancel
    \/ \E i \in 1..Len(deletes) : DoDeleteWorktree(i)
    \/ \E i \in 1..Len(deletes) : DoDeleteBranch(i)
    \/ \E i \in 1..Len(deletes) : RemoveRow(i)

Spec == Init /\ [][Next]_vars

-----------------------------------------------------------------------------
(* SpecNames: the application with two configured repositories whose        *)
(* directories have the same name                                           *)

\* config.repos: repository a, and two repositories in directories named b
InitNames ==
    /\ DiscoverIdle
    /\ FingerprintIdle
    /\ CleanupIdle
    /\ ParseIdle
    /\ \E fs \in FeatStates :
          world = [feat |-> fs, sibling |-> NoPath, down |-> {},
                   repos |-> << [name |-> "a", path |-> <<"a">>],
                                [name |-> "b", path |-> <<"b">>],
                                [name |-> "b", path |-> <<"q", "b">>] >>]
    /\ budget = [git |-> MaxGitChanges, deletes |-> MaxDeletes,
                 runs |-> MaxRefreshThreads, fetches |-> 0, outages |-> 0]
    /\ AppConstructed(StartCwd)

SpecNames == InitNames /\ [][Next]_vars

-----------------------------------------------------------------------------
(* SpecLanes: the lanes of background work, in a small environment: branch *)
(* feat has a clean worktree or none, the sibling panes report nothing,    *)
(* the only change from outside is a repository in which git fails         *)

\* the runs of the refresh lane not yet handed over, the fetches the user
\* requests, the times a repository starts or stops failing
MaxLaneRuns == 2
MaxFetches == 1
MaxOutages == 1

\* every git command in a repository starts, or stops, failing
RepoOutage ==
    /\ budget.outages > 0
    /\ \E name \in {"a", "b"} :
          world' = [world EXCEPT !.down = IF name \in @ THEN @ \ {name}
                                          ELSE @ \cup {name}]
    /\ budget' = [budget EXCEPT !.outages = @ - 1]
    /\ last_apply' = NoApply
    /\ UNCHANGED <<d_vars, ui_vars, worker_vars, calls>>

\* the program is started in repository a, or outside every repository
InitLanes ==
    /\ DiscoverIdle
    /\ FingerprintIdle
    /\ CleanupIdle
    /\ ParseIdle
    /\ \E wt \in BOOLEAN, dn \in {{}, {"b"}} :
          world = [feat |-> [present |-> TRUE, wt |-> wt, gone |-> FALSE,
                             status |-> "clean"],
                   sibling |-> NoPath, down |-> dn, repos |-> Repos]
    /\ budget = [git |-> 0, deletes |-> MaxDeletes, runs |-> MaxLaneRuns,
                 fetches |-> MaxFetches, outages |-> MaxOutages]
    \* started inside repository a, or in a directory outside every repository
    /\ \E cwd \in {StartCwd, <<"z">>} : AppConstructed(cwd)

NextLanes ==
    \/ RepoOutage
    \/ OnMount
    \/ DiscoverReposBackground
    \/ MergeDiscovered
    \/ RefreshTick
    \/ \E i \in 1..Len(refresh) : RefreshRepos(i)
    \/ \E i \in 1..Len(refresh) : ApplyRefresh(i)
    \/ ActionFetchRefresh
    \/ \E i \in 1..Len(fetch) : FetchRepos(i)
    \/ \E i \in 1..Len(fetch) : PostFetchRefresh(i)
    \/ ActionDeleteBranch
    \/ \E i \in 1..Len(check) : PrepareWorktreeDelete(i)
    \/ \E i \in 1..Len(check) : ShowDeleteDialog(i)
    \/ DeleteConfirmKey
    \/ OnKeyConfirmBar
    \/ ActionCancel
    \/ \E i \in 1..Len(deletes) : DoDeleteWorktree(i)
    \/ \E i \in 1..Len(deletes) : DoDeleteBranch(i)
    \/ \E i \in 1..Len(deletes) : RemoveRow(i)

SpecLanes == InitLanes /\ [][NextLanes]_vars

-----------------------------------------------------------------------------
(* SpecCursor: the cursor, the scope and the filter while refreshes are     *)
(* applied and a repository may start or stop failing                       *)

InitCursor ==
    /\ DiscoverIdle
    /\ FingerprintIdle
    /\ CleanupIdle
    /\ ParseIdle
    /\ \E fs \in FeatStates :
          world = [feat |-> fs, sibling |-> NoPath, down |-> {}, repos |-> Repos]
    /\ budget = [git |-> MaxGitChanges, deletes |-> 0, runs |-> MaxRefreshThreads,
                 fetches |-> 0, outages |-> MaxOutages]
    /\ AppConstructed(StartCwd)

NextCursor ==
    \/ EnvChange
    \/ RepoOutage
    \/ OnMount
    \/ DiscoverReposBackground
    \/ MergeDiscovered
    \/ RefreshTick
    \/ \E i \in 1..Len(refresh) : RefreshRepos(i)
    \/ \E i \in 1..Len(refresh) : ApplyRefresh(i)
    \/ ActionCursorDown
    \/ ActionCursorUp
    \/ ActionToggleScope
    \/ ActionStartFilter
    \/ OnInputChanged
    \/ OnInputSubmitted

SpecCursor == InitCursor /\ [][NextCursor]_vars

-----------------------------------------------------------------------------
(* SpecPins: pinning and unpinning, with the cursor, the scope, the filter  *)
(* and the refresh                                                          *)

\* branch feat of repository a is absent or a bare ref; git's state does
\* not change
InitPins ==
    /\ DiscoverIdle
    /\ FingerprintIdle
    /\ CleanupIdle
    /\ ParseIdle
    /\ \E fs \in {NoFeat, [present |-> TRUE, wt |-> FALSE, gone |-> FALSE,
                              status |-> "clean"]} :
          world = [feat |-> fs, sibling |-> NoPath, down |-> {}, repos |-> Repos]
    /\ budget = [git |-> 0, deletes |-> 0, runs |-> MaxRefreshThreads,
                 fetches |-> 0, outages |-> 0]
    /\ AppConstructed(StartCwd)

NextPins ==
    \/ OnMount
    \/ DiscoverReposBackground
    \/ MergeDiscovered
    \/ RefreshTick
    \/ \E i \in 1..Len(refresh) : RefreshRepos(i)
    \/ \E i \in 1..Len(refresh) : ApplyRefresh(i)
    \/ ActionCursorDown
    \/ ActionCursorUp
    \/ ActionToggleScope
    \/ ActionStartFilter
    \/ OnInputChanged
    \/ OnInputSubmitted
    \/ ActionTogglePin

SpecPins == InitPins /\ [][NextPins]_vars

-----------------------------------------------------------------------------
(* SpecOutage: refresh cycles while a repository fails for a time, once     *)
(* every configured repository has been discovered                          *)

\* the times a repository starts or stops failing
MaxOutageChanges == 2

InitOutage ==
    /\ DiscoverIdle
    /\ FingerprintIdle
    /\ CleanupIdle
    /\ ParseIdle
    /\ \E fs \in {NoFeat, [present |-> TRUE, wt |-> TRUE, gone |-> FALSE,
                              status |-> "clean"]} :
          world = [feat |-> fs, sibling |-> NoPath, down |-> {}, repos |-> Repos]
    /\ budget = [git |-> 0, deletes |-> 0, runs |-> MaxLaneRuns, fetches |-> 0,
                 outages |-> MaxOutageChanges]
    /\ AppConstructed(StartCwd)

NextOutage ==
    \* a repository starts or stops failing after the discovery burst is merged
    \/ (discovery.pc = "done" /\ RepoOutage)
    \/ OnMount
    \/ DiscoverReposBackground
    \/ MergeDiscovered
    \/ RefreshTick
    \/ \E i \in 1..Len(refresh) : RefreshRepos(i)
    \/ \E i \in 1..Len(refresh) : ApplyRefresh(i)
    \/ ActionToggleScope

SpecOutage == InitOutage /\ [][NextOutage]_vars

-----------------------------------------------------------------------------
(* SpecCreate: creating a worktree while the other repositories load and    *)
(* the refresh runs                                                         *)

\* branch feat is absent or a bare ref; nothing else changes from outside
InitCreate ==
    /\ DiscoverIdle
    /\ FingerprintIdle
    /\ CleanupIdle
    /\ ParseIdle
    /\ \E fs \in {NoFeat, [present |-> TRUE, wt |-> FALSE, gone |-> FALSE,
                             status |-> "clean"]} :
          world = [feat |-> fs, sibling |-> NoPath, down |-> {}, repos |-> Repos]
    /\ budget = [git |-> 0, deletes |-> 0, runs |-> MaxLaneRuns, fetches |-> 0,
                 outages |-> 0]
    /\ AppConstructed(StartCwd)

NextCreate ==
    \/ OnMount
    \/ DiscoverReposBackground
    \/ MergeDiscovered
    \/ RefreshTick
    \/ \E i \in 1..Len(refresh) : RefreshRepos(i)
    \/ \E i \in 1..Len(refresh) : ApplyRefresh(i)
    \/ ActionCursorDown
    \/ ActionCursorUp
    \/ ActionToggleScope
    \/ ActionCreateWorktree
    \/ CreateWorktreeResult
    \/ \E i \in 1..Len(create.runs) : DoCreateWorktree(i)
    \/ \E i \in 1..Len(create.runs) : PostCreateWorktree(i)

SpecCreate == InitCreate /\ [][NextCreate]_vars

-----------------------------------------------------------------------------
(* SpecLoading: the discovery burst from its start to its end, while the    *)
(* user may quit; every thread that can take a step takes it in the end,    *)
(* and so does every callback posted to the running application             *)

NextLoading ==
    \/ RepoOutage
    \/ OnMount
    \/ DiscoverReposBackground
    \/ MergeDiscovered
    \/ RefreshTick
    \/ \E i \in 1..Len(refresh) : RefreshRepos(i)
    \/ \E i \in 1..Len(refresh) : ApplyRefresh(i)
    \/ ActionCursorDown
    \/ ActionCursorUp
    \/ ActionToggleScope
    \/ ActionQuitApp

SpecLoading ==
    /\ InitLanes
    /\ [][NextLoading]_vars
    /\ WF_vars(OnMount)
    /\ WF_vars(DiscoverReposBackground)
    /\ WF_vars(MergeDiscovered)

-----------------------------------------------------------------------------
(* SpecConfirm: the delete protocol when nothing changes from outside and   *)
(* no refresh runs; the worktree check ends, its posted callback runs, and  *)
(* the user answers a confirmation that is up                               *)

NextConfirm ==
    \/ OnMount
    \/ DiscoverReposBackground
    \/ MergeDiscovered
    \/ ActionCursorDown
    \/ ActionCursorUp
    \/ ActionToggleScope
    \/ ActionDeleteBranch
    \/ \E i \in 1..Len(check) : PrepareWorktreeDelete(i)
    \/ \E i \in 1..Len(check) : ShowDeleteDialog(i)
    \/ DeleteConfirmKey
    \/ OnKeyConfirmBar
    \/ ActionCancel
    \/ \E i \in 1..Len(deletes) : DoDeleteWorktree(i)
    \/ \E i \in 1..Len(deletes) : DoDeleteBranch(i)
    \/ \E i \in 1..Len(deletes) : RemoveRow(i)

SpecConfirm ==
    /\ Init
    /\ [][NextConfirm]_vars
    /\ WF_vars(\E i \in 1..Len(check) : PrepareWorktreeDelete(i))
    /\ WF_vars(\E i \in 1..Len(check) : ShowDeleteDialog(i))
    /\ WF_vars(DeleteConfirmKey)
    /\ WF_vars(OnKeyConfirmBar)

-----------------------------------------------------------------------------
(* SpecDefault: the delete protocol in a repository whose remote HEAD is    *)
(* branch feat                                                              *)

\* origin/HEAD of repository a points at origin/feat; feat is a bare ref or
\* checked out in FeatDir, and the application starts in the repository root
\* (where main is checked out) or in FeatDir
InitDefault ==
    /\ DiscoverIdle
    /\ FingerprintIdle
    /\ CleanupIdle
    /\ ParseIdle
    /\ \E fs \in { f \in FeatStates : f.present }, sib \in SiblingCwds :
          world = [feat |-> fs, sibling |-> sib, down |-> {}, repos |-> Repos,
                   head |-> "feat"]
    /\ budget = [git |-> 0, deletes |-> MaxDeletes, runs |-> 0, fetches |-> 0,
                 outages |-> 0]
    /\ \E cwd \in {StartCwd, FeatDir} : AppConstructed(cwd)

SpecDefault == InitDefault /\ [][NextConfirm]_vars

-----------------------------------------------------------------------------
(* SpecTwins: the delete protocol with two configured repositories whose    *)
(* directories have the same name                                           *)

\* config.repos holds b, a and q/a, the last two both with a branch feat;
\* the application starts in b, so the discovery burst covers the two
InitTwins ==
    /\ DiscoverIdle
    /\ FingerprintIdle
    /\ CleanupIdle
    /\ ParseIdle
    /\ \E fs \in { f \in FeatStates : f.present } :
          world = [feat |-> fs, sibling |-> NoPath, down |-> {},
                   repos |-> << [name |-> "b", path |-> <<"b">>],
                                [name |-> "a", path |-> <<"a">>],
                                [name |-> "a", path |-> <<"q", "a">>] >>,
                   twin |-> TRUE]
    /\ budget = [git |-> 0, deletes |-> MaxDeletes, runs |-> 0, fetches |-> 0,
                 outages |-> 0]
    /\ AppConstructed(<<"b">>)

SpecTwins == InitTwins /\ [][NextConfirm]_vars

-----------------------------------------------------------------------------
(* SpecBare: the delete protocol when repository a is a bare repository     *)
(* whose only recent branch is feat                                         *)

\* config.repos holds a, b and c; the application starts in repository b,
\* and the discovery burst finds branch feat alone in repository a
InitBare ==
    /\ DiscoverIdle
    /\ FingerprintIdle
    /\ CleanupIdle
    /\ ParseIdle
    /\ \E fs \in { f \in FeatStates : f.present }, sib \in SiblingCwds :
          world = [feat |-> fs, sibling |-> sib, down |-> {},
                   repos |-> Repos \o << [name |-> "c", path |-> <<"c">>] >>,
                   bare |-> TRUE]
    /\ budget = [git |-> 0, deletes |-> MaxDeletes, runs |-> 0, fetches |-> 0,
                 outages |-> 0]
    /\ AppConstructed(<<"b">>)

SpecBare == InitBare /\ [][NextConfirm]_vars

-----------------------------------------------------------------------------
(* SpecScoped: _scoped_rows of a snapshot, for every scope, active branch   *)
(* and pin set                                                              *)

\* the snapshot holds repository a, or a and b, with branches feat and main
\* each; the scope shows all or one repository (also one that the snapshot
\* does not hold), the active branch is none or one of the a and b rows, and
\* any of these rows are pinned
InitScoped ==
    /\ DiscoverIdle
    /\ FingerprintIdle
    /\ CleanupIdle
    /\ ParseIdle
    /\ world = [feat |-> NoFeat, sibling |-> NoPath, down |-> {}, repos |-> Repos]
    /\ budget = NoBudget
    /\ app_pc = "init"
    /\ LET entry(k) == [name |-> Repos[k].name, path |-> Repos[k].path,
                        branches |-> << BranchInfo("feat", "c1", Now),
                                        BranchInfo("main", "c1", Now) >>]
           keys == { pin_key(Repos[k].name, n) : k \in 1..Len(Repos), n \in {"feat", "main"} }
       IN  /\ repo_data \in { <<entry(1)>>, <<entry(1), entry(2)>> }
           /\ all_rows = rebuild_rows(repo_data)
           /\ pins \in SUBSET keys
           /\ \E all \in BOOLEAN, cur \in {None, "a", "b"}, act \in {<<>>} \cup keys :
                 scope = [show_all |-> all, current_repo |-> cur, cwd |-> NoPath,
                          effective_cwd |-> NoPath, loading_others |-> FALSE,
                          active_branch_key |-> act]
    /\ table = <<>>
    /\ cursor = 0
    /\ filter = [filtering |-> FALSE, value |-> ""]
    /\ confirm = [pending |-> <<>>, bar |-> FALSE, modal |-> <<>>]
    /\ discovery = [pc |-> "idle", repos |-> <<>>, data |-> <<>>]
    /\ refresh = <<>>
    /\ fetch = <<>>
    /\ check = <<>>
    /\ deletes = <<>>
    /\ create = [screen |-> <<>>, runs |-> <<>>]
    /\ calls = <<>>
    /\ last_apply = NoApply

\* self._populate(self._scoped_rows())
PopulateScoped ==
    /\ app_pc = "init"
    /\ app_pc' = "running"
    /\ table' = populate(scoped_rows(all_rows, scope, pins))
    /\ UNCHANGED <<d_vars, env_vars, repo_data, all_rows, cursor, scope, filter, pins,
                   confirm, worker_vars, calls, last_apply>>

SpecScoped == InitScoped /\ [][PopulateScoped]_vars

-----------------------------------------------------------------------------
(* SpecFingerprint: _data_fingerprint of a snapshot and of the same         *)
(* snapshot with one field changed                                          *)

\* values a field may change to
FieldValues(field) ==
    CASE field \in {"name", "worktree.branch"} -> {"feat", "main", "dev"}
      [] field \in {"commit", "worktree.head"} -> {"c1", "c2", "c9"}
      [] field = "timestamp" -> {Now, Now - 1}
      [] field = "worktree.path" -> {NoPath, FeatDir, <<"a">>, <<"z">>}
      [] field \in {"is_current", "dirty", "deletable"} -> BOOLEAN
      [] field \in {"ahead_upstream", "behind_upstream", "ahead_main", "behind_main"}
            -> {0, 1}
      [] field = "delete_reason" -> {None, "upstream gone", "merged"}
      [] field = "repo" -> {"a", "b", "c"}

\* the value of a field of branch j of entry r
field_of(data, r, j, field) ==
    CASE field = "repo" -> data[r].name
      [] field = "worktree.path" -> data[r].branches[j].worktree.path
      [] field = "worktree.head" -> data[r].branches[j].worktree.head
      [] field = "worktree.branch" -> data[r].branches[j].worktree.branch
      [] OTHER -> data[r].branches[j][field]

\* the snapshot with that field set to value
with_field(data, r, j, field, value) ==
    CASE field = "repo" -> [data EXCEPT ![r].name = value]
      [] field = "worktree.path" ->
            [data EXCEPT ![r].branches[j].worktree.path = value]
      [] field = "worktree.head" ->
            [data EXCEPT ![r].branches[j].worktree.head = value]
      [] field = "worktree.branch" ->
            [data EXCEPT ![r].branches[j].worktree.branch = value]
      [] OTHER -> [data EXCEPT ![r].branches[j][field] = value]

\* the snapshots discovery returns for the repositories of Repos, and every
\* change of one field of one of their branches to another value
InitFingerprint ==
    /\ DiscoverIdle
    /\ CleanupIdle
    /\ ParseIdle
    /\ world = [feat |-> NoFeat, sibling |-> NoPath, down |-> {}, repos |-> Repos]
    /\ budget = NoBudget
    /\ AppConstructed(NoPath)
    /\ f_pc = "snapshot"
    /\ f_result = <<>>
    /\ \E w \in Worlds, cwd \in {<<"a">>, FeatDir} :
          /\ f_data = discover_all(w, cwd, Repos)
          /\ \E r \in 1..Len(f_data) :
                \E j \in 1..Len(f_data[r].branches),
                   field \in {"name", "commit", "timestamp", "worktree.path",
                              "worktree.head", "worktree.branch", "is_current", "dirty",
                              "ahead_upstream", "behind_upstream", "ahead_main",
                              "behind_main", "deletable", "delete_reason", "repo"} :
                   \E value \in FieldValues(field) :
                      /\ value # field_of(f_data, r, j, field)
                      /\ f_change = [repo |-> r, branch |-> j, field |-> field,
                                     value |-> value]

\* both fingerprints are taken
Fingerprint ==
    /\ f_pc = "snapshot"
    /\ f_result' = << data_fingerprint(f_data),
                      data_fingerprint(with_field(f_data, f_change.repo, f_change.branch,
                                                  f_change.field, f_change.value)) >>
    /\ f_pc' = "done"
    /\ UNCHANGED <<d_pc, d_git, d_cwd, d_result, f_data, f_change, c_pc, c_call, c_git, c_result, w_pc, w_output, w_result,
                   env_vars, ui_vars,
                   worker_vars, calls, last_apply>>

NextFingerprint == Fingerprint

SpecFingerprint == InitFingerprint /\ [][NextFingerprint]_vars

-----------------------------------------------------------------------------
(* SpecCleanup: one call of cleanup.delete_branch or cleanup.delete_worktree *)

\* a str is the sequence of its characters; these are the whitespace ones
Whitespace == {" ", "\n"}

\* str.strip()
RECURSIVE lstrip(_)
lstrip(str) ==
    IF str # <<>> /\ Head(str) \in Whitespace THEN lstrip(Tail(str)) ELSE str

RECURSIVE rstrip(_)
rstrip(str) ==
    IF str # <<>> /\ str[Len(str)] \in Whitespace
    THEN rstrip(SubSeq(str, 1, Len(str) - 1))
    ELSE str

strip(str) == rstrip(lstrip(str))

\* subprocess.CompletedProcess: returncode and stderr. git exits with
\* success, failure or a fatal error; it writes to stderr nothing, a message
\* ending in a newline, a message between blanks, or a newline alone
CompletedProcesses ==
    [returncode : {0, 1, 128},
     stderr : { <<>>, <<"e", "r", "\n">>, <<" ", "e", " ", "r", "\n">>, <<"\n">> }]

\* subprocess.run(argv, capture_output=True, text=True): the sub-command and
\* the flag of argv decide git's behaviour here
subprocess_run(git, argv) == git[<<argv[4], argv[5]>>]

delete_branch_mut_by_stderr(git, repo, branch, force) ==
    LET flag == IF force THEN "-D" ELSE "-d"
        argv == <<"git", "-C", repo, "branch", flag, branch>>
        result == subprocess_run(git, argv)
    IN  [argv |-> argv,
         ret |-> IF strip(result.stderr) # <<>> THEN <<strip(result.stderr)>> ELSE <<>>]

\* cleanup.delete_branch: the command it runs and the value it returns,
\* <<>> for None and <<text>> for a str
delete_branch(git, repo, branch, force) ==
    LET flag == IF force THEN "-D" ELSE "-d"
        argv == <<"git", "-C", repo, "branch", flag, branch>>
        result == subprocess_run(git, argv)
    IN  [argv |-> argv,
         ret |-> IF result.returncode # 0 THEN <<strip(result.stderr)>> ELSE <<>>]

\* cleanup.delete_worktree
delete_worktree(git, repo, worktree_path) ==
    LET argv == <<"git", "-C", repo, "worktree", "remove", worktree_path>>
        result == subprocess_run(git, argv)
    IN  [argv |-> argv,
         ret |-> IF result.returncode # 0 THEN <<strip(result.stderr)>> ELSE <<>>]

\* every call of the two functions, and every way git may answer each command
InitCleanup ==
    /\ DiscoverIdle
    /\ FingerprintIdle
    /\ ParseIdle
    /\ world = [feat |-> NoFeat, sibling |-> NoPath, down |-> {}, repos |-> Repos]
    /\ budget = NoBudget
    /\ AppConstructed(NoPath)
    /\ c_pc = "call"
    /\ c_result = <<>>
    /\ \/ \E force \in BOOLEAN :
             c_call = [fn |-> "delete_branch", repo |-> "/repo", branch |-> "feat",
                       force |-> force]
       \/ c_call = [fn |-> "delete_worktree", repo |-> "/repo",
                    worktree_path |-> "/repo.feat"]
    /\ \E soft \in CompletedProcesses, hard \in CompletedProcesses,
          remove \in CompletedProcesses :
          c_git = (<<"branch", "-d">> :> soft) @@ (<<"branch", "-D">> :> hard)
                  @@ (<<"worktree", "remove">> :> remove)

DeleteBranch ==
    /\ c_pc = "call"
    /\ c_call.fn = "delete_branch"
    /\ c_result' = delete_branch(c_git, c_call.repo, c_call.branch, c_call.force)
    /\ c_pc' = "done"
    /\ UNCHANGED <<d_pc, d_git, d_cwd, d_result, f_pc, f_data, f_change, f_result,
                   c_call, c_git, w_pc, w_output, w_result, env_vars, ui_vars, worker_vars, calls,
                   last_apply>>

DeleteWorktree ==
    /\ c_pc = "call"
    /\ c_call.fn = "delete_worktree"
    /\ c_result' = delete_worktree(c_git, c_call.repo, c_call.worktree_path)
    /\ c_pc' = "done"
    /\ UNCHANGED <<d_pc, d_git, d_cwd, d_result, f_pc, f_data, f_change, f_result,
                   c_call, c_git, w_pc, w_output, w_result, env_vars, ui_vars, worker_vars, calls,
                   last_apply>>

NextCleanup == DeleteBranch \/ DeleteWorktree

SpecCleanup == InitCleanup /\ [][NextCleanup]_vars

-----------------------------------------------------------------------------
(* SpecWorktrees: one call of parse_worktrees *)

\* most worktree records in the output
MaxWorktrees == 3

\* the words of git worktree list --porcelain, as strs
KeyWorktree == <<"w", "o", "r", "k", "t", "r", "e", "e">>
KeyHead == <<"H", "E", "A", "D">>
KeyBranch == <<"b", "r", "a", "n", "c", "h">>
RefsHeads == <<"r", "e", "f", "s", "/", "h", "e", "a", "d", "s", "/">>

\* line.partition(" "): the part before the first blank and the part after it
RECURSIVE before_blank(_)
before_blank(line) ==
    IF line = <<>> \/ Head(line) = " " THEN <<>>
    ELSE <<Head(line)>> \o before_blank(Tail(line))

\* str.startswith, str.removeprefix
startswith(str, prefix) ==
    Len(prefix) <= Len(str) /\ SubSeq(str, 1, Len(prefix)) = prefix

removeprefix(str, prefix) ==
    IF startswith(str, prefix) THEN SubSeq(str, Len(prefix) + 1, Len(str)) ELSE str

names_branch_mut_no_paren(current) == KeyBranch \in DOMAIN current

\* "branch" in current and not current["branch"].startswith("(")
names_branch(current) ==
    /\ KeyBranch \in DOMAIN current
    /\ ~startswith(current[KeyBranch], <<"(">>)

\* the loop of parse_worktrees from line i on; a record is closed by a
\* blank line. A record that names a branch and lacks "worktree" or "HEAD"
\* raises KeyError: the result is then "KeyError".
\*   after_blank: the part of line.partition(" ") after the first blank
\*   first_chars: str[:n]
\*   dict_set:    current[key] = value
\*   items_set:   worktrees[branch] = wt, a dict kept as the list of its
\*                items: a known key keeps its place
RECURSIVE parse_from(_, _, _, _)
parse_from(lines, i, current, worktrees) ==
    LET after_blank(line) ==
            LET n == Len(before_blank(line))
            IN  IF n + 1 >= Len(line) THEN <<>> ELSE SubSeq(line, n + 2, Len(line))
        first_chars(str, n) == IF Len(str) <= n THEN str ELSE SubSeq(str, 1, n)
        dict_set(dict, key, value) ==
            [k \in (DOMAIN dict) \cup {key} |-> IF k = key THEN value ELSE dict[k]]
        items_set(items, key, value) ==
            IF \E n \in 1..Len(items) : items[n].key = key
            THEN [n \in 1..Len(items) |->
                     IF items[n].key = key THEN [key |-> key, value |-> value]
                     ELSE items[n]]
            ELSE Append(items, [key |-> key, value |-> value])
    IN
    IF i > Len(lines) THEN worktrees
    ELSE IF strip(lines[i]) = <<>>
    THEN IF names_branch(current)
         THEN IF {KeyWorktree, KeyHead} \subseteq DOMAIN current
              THEN LET branch == removeprefix(current[KeyBranch], RefsHeads)
                   IN  parse_from(lines, i + 1, <<>>,
                           items_set(worktrees, branch,
                                     Worktree(current[KeyWorktree],
                                              first_chars(current[KeyHead], 7),
                                              branch)))
              ELSE "KeyError"
         ELSE parse_from(lines, i + 1, <<>>, worktrees)
    ELSE parse_from(lines, i + 1,
                    dict_set(current, before_blank(lines[i]), after_blank(lines[i])),
                    worktrees)

parse_worktrees(output) == parse_from(output, 1, <<>>, <<>>)

\* the worktrees git may list: the k-th lies in directory /wk; its HEAD is a
\* full object name (here 9 characters) or already abbreviated to 7
WorktreePath(k) ==
    <<"/", "w", <<"1", "2", "3", "4", "5", "6", "7", "8", "9">>[k]>>

\* a worktree on a branch (locked or not), with a detached HEAD (as the
\* porcelain format prints it, or as "branch (detached)"), or bare
WorktreeRecords(k) ==
    LET ObjectNames == { <<"a", "b", "c", "1", "2", "3", "4", "d", "e">>,
                         <<"d", "e", "f", "5", "6", "7", "8">> }
        BranchNames == { <<"m", "a", "i", "n">>, <<"f", "i", "x", "/", "x">> }
    IN
    { [kind |-> "branch", path |-> WorktreePath(k), head |-> h, name |-> n,
       locked |-> l] : h \in ObjectNames, n \in BranchNames, l \in BOOLEAN }
    \cup { [kind |-> kd, path |-> WorktreePath(k), head |-> <<"a", "b", "c", "1", "2", "3", "4", "d", "e">>,
            name |-> <<>>, locked |-> FALSE] : kd \in {"detached", "paren", "bare"} }

\* the lines git prints for a record, the closing blank line included
lines_of(rec) ==
    << KeyWorktree \o <<" ">> \o rec.path >>
    \o (IF rec.kind = "bare" THEN << <<"b", "a", "r", "e">> >>
        ELSE << KeyHead \o <<" ">> \o rec.head >>)
    \o (IF rec.kind = "branch" THEN << KeyBranch \o <<" ">> \o RefsHeads \o rec.name >>
        ELSE IF rec.kind = "detached"
        THEN << <<"d", "e", "t", "a", "c", "h", "e", "d">> >>
        ELSE IF rec.kind = "paren"
        THEN << KeyBranch \o <<" ">>
                \o <<"(", "d", "e", "t", "a", "c", "h", "e", "d", ")">> >>
        ELSE <<>>)
    \o (IF rec.locked THEN << <<"l", "o", "c", "k", "e", "d">> >> ELSE <<>>)
    \o << <<>> >>

RECURSIVE output_of(_)
output_of(recs) ==
    IF recs = <<>> THEN <<>> ELSE lines_of(Head(recs)) \o output_of(Tail(recs))

\* up to MaxWorktrees records, a branch checked out in one worktree at
\* most; w_output holds them and the lines git prints
InitWorktrees ==
    /\ DiscoverIdle
    /\ FingerprintIdle
    /\ CleanupIdle
    /\ world = [feat |-> NoFeat, sibling |-> NoPath, down |-> {}, repos |-> Repos]
    /\ budget = NoBudget
    /\ AppConstructed(NoPath)
    /\ w_pc = "output"
    /\ w_result = <<>>
    /\ \E n \in 0..MaxWorktrees :
          \E recs \in [1..n -> UNION { WorktreeRecords(k) : k \in 1..MaxWorktrees }] :
             /\ \A k \in 1..n : recs[k] \in WorktreeRecords(k)
             /\ \A i, j \in 1..n :
                   (i # j /\ recs[i].kind = "branch" /\ recs[j].kind = "branch")
                       => recs[i].name # recs[j].name
             /\ w_output = [records |-> recs, lines |-> output_of(recs)]

ParseWorktrees ==
    /\ w_pc = "output"
    /\ w_result' = parse_worktrees(w_output.lines)
    /\ w_pc' = "done"
    /\ UNCHANGED <<d_pc, d_git, d_cwd, d_result, f_pc, f_data, f_change, f_result,
                   c_pc, c_call, c_git, c_result, w_output, env_vars, ui_vars, worker_vars, calls, last_apply>>

NextWorktrees == ParseWorktrees

SpecWorktrees == InitWorktrees /\ [][NextWorktrees]_vars

-----------------------------------------------------------------------------
(* SpecDiscover: one call of discover_repo *)

\* repositories of no, one or two branches, listed in for-each-ref's order;
\* in a repository of two, one branch takes every combination of facts.
\* origin/HEAD is unset or points at origin/feat. The working directory is
\* the outer worktree, lies below the inner one, or is the directory beside
\* them.
InitDiscover ==
    /\ world = [feat |-> NoFeat, sibling |-> NoPath, down |-> {}, repos |-> Repos]
    /\ budget = NoBudget
    /\ FingerprintIdle
    /\ CleanupIdle
    /\ ParseIdle
    /\ AppConstructed(NoPath)
    /\ d_pc = "facts"
    /\ d_cwd \in {OuterDir, InnerDir \o <<"src">>, <<"x">>}
    /\ d_result = <<>>
    /\ \E oh \in {"", "feat"} :
       LET \* a second branch beside the subject: recent, not merged, with
           \* or without a worktree (in the outer directory, or in a
           \* directory beside it), its upstream gone or not configured
           OtherFacts ==
               { [ts |-> Now, wt |-> wt, porcelain |-> <<>>, up |-> up,
                  ancestor |-> FALSE, cherry |-> <<"+">>, rev_main |-> <<>>] :
                   wt \in {NoPath, OuterDir, <<"x">>},
                   up \in { u \in Upstreams : u.rev = <<>> } }
       IN
        \/ d_git = GitOf(<<>>, <<>>, oh)
        \/ \E i \in 1..Len(NameOrder), s \in SubjectFacts :
              d_git = GitOf(<<NameOrder[i]>>, (NameOrder[i] :> s), oh)
        \/ \E p \in { q \in (1..Len(NameOrder)) \X (1..Len(NameOrder)) : q[1] < q[2] },
              a \in SubjectFacts, b \in OtherFacts :
              \/ d_git = GitOf(<<NameOrder[p[1]], NameOrder[p[2]]>>,
                               (NameOrder[p[1]] :> a) @@ (NameOrder[p[2]] :> b), oh)
              \/ d_git = GitOf(<<NameOrder[p[1]], NameOrder[p[2]]>>,
                               (NameOrder[p[1]] :> b) @@ (NameOrder[p[2]] :> a), oh)

Discover ==
    /\ d_pc = "facts"
    /\ d_result' = discover_repo(d_git, d_cwd)
    /\ d_pc' = "done"
    /\ UNCHANGED <<d_git, d_cwd, f_pc, f_data, f_change, f_result, c_pc, c_call, c_git, c_result, w_pc, w_output, w_result,
                   env_vars, ui_vars,
                   worker_vars, calls, last_apply>>

NextDiscover == Discover

SpecDiscover == InitDiscover /\ [][NextDiscover]_vars

-----------------------------------------------------------------------------
(* Properties of discover_repo (SpecDiscover) *)

\* the entries of the returned list
Returned == { d_result[i] : i \in 1..Len(d_result) }

\* what git reports about a returned branch
UpstreamGone(e) == d_git.track[e.name] = "[gone]"
AncestorOfMain(e) == d_git.ancestor[e.name]
CherryAllMerged(e) ==
    /\ Len(d_git.cherry[e.name]) > 0
    /\ \A k \in 1..Len(d_git.cherry[e.name]) : d_git.cherry[e.name][k] = "-"
HasWorktree(e) == e.worktree.path # NoPath
CwdInWorktree(e) ==
    \/ d_cwd = e.worktree.path
    \/ (Len(e.worktree.path) < Len(d_cwd)
        /\ \A k \in 1..Len(e.worktree.path) : d_cwd[k] = e.worktree.path[k])

\* C1: a returned branch with is_current true has deletable false and no
\* delete_reason, whatever git reports about its upstream, its ancestry and
\* its cherry marks.
C1_CurrentNeverDeletable ==
    d_pc = "done" =>
        \A e \in Returned :
            e.is_current => (~e.deletable /\ e.delete_reason = None)

\* C1 witness: a current branch, not the main branch, whose upstream is gone
\* and which is an ancestor of main with every cherry mark "-".
C1_Witness ==
    /\ d_pc = "done"
    /\ \E e \in Returned :
        /\ e.is_current
        /\ e.name # detect_main_branch(d_git)
        /\ detect_main_branch(d_git) # None
        /\ UpstreamGone(e) /\ AncestorOfMain(e) /\ CherryAllMerged(e)

\* C2: the branch detect_main_branch names is never returned deletable.
C2_MainNeverDeletable ==
    d_pc = "done" =>
        \A e \in Returned :
            e.name = detect_main_branch(d_git) => ~e.deletable

\* C2 witness: the main branch is returned, is not current, and its
\* upstream is gone.
C2_Witness ==
    /\ d_pc = "done"
    /\ \E e \in Returned :
        /\ e.name = detect_main_branch(d_git)
        /\ ~e.is_current
        /\ UpstreamGone(e)

\* C3 as stated: a returned branch with a linked worktree is never deletable.
C3_WorktreeNeverDeletable ==
    d_pc = "done" =>
        \A e \in Returned : HasWorktree(e) => ~e.deletable

\* C3 amended: a returned branch whose linked worktree is the working
\* directory or contains it is never deletable.
C3_WorktreeHoldingCwdNeverDeletable ==
    d_pc = "done" =>
        \A e \in Returned :
            (HasWorktree(e) /\ CwdInWorktree(e)) => ~e.deletable

\* C3 witness: the working directory lies below the worktree of a branch
\* that is not the main branch and whose upstream is gone.
C3_Witness ==
    /\ d_pc = "done"
    /\ \E e \in Returned :
        /\ HasWorktree(e)
        /\ d_cwd # e.worktree.path /\ CwdInWorktree(e)
        /\ e.name # detect_main_branch(d_git)
        /\ UpstreamGone(e)

\* C4: for a returned branch that is neither main nor current the rules are
\* tried in the order upstream gone, merged, squash-merged and the first
\* match decides the reason.
C4_RuleOrder ==
    d_pc = "done" =>
        \A e \in Returned :
            (e.name # detect_main_branch(d_git) /\ ~e.is_current) =>
                /\ UpstreamGone(e) =>
                      (e.deletable /\ e.delete_reason = "upstream gone")
                /\ (~UpstreamGone(e) /\ detect_main_branch(d_git) # None
                        /\ AncestorOfMain(e)) =>
                      (e.deletable /\ e.delete_reason = "merged")
                /\ (~UpstreamGone(e) /\ detect_main_branch(d_git) # None
                        /\ ~AncestorOfMain(e) /\ CherryAllMerged(e)) =>
                      (e.deletable /\ e.delete_reason = "squash-merged")

\* C4 witness: upstream gone, ancestor of main and every cherry mark "-" at
\* once, reported as "upstream gone".
C4_Witness ==
    /\ d_pc = "done"
    /\ \E e \in Returned :
        /\ e.name # detect_main_branch(d_git) /\ ~e.is_current
        /\ detect_main_branch(d_git) # None
        /\ UpstreamGone(e) /\ AncestorOfMain(e) /\ CherryAllMerged(e)
        /\ e.delete_reason = "upstream gone"

\* C5: the returned branches are exactly, in order and once each, the
\* branches that have a linked worktree or whose timestamp is not below
\* now - recent_days days.
C5_AgeFilter ==
    d_pc = "done" =>
        LET kept == { n \in DOMAIN d_git.timestamp :
                        \/ d_git.worktrees[n].path # NoPath
                        \/ d_git.timestamp[n] >= Now - RecentDays * SecondsPerDay }
        IN  /\ { e.name : e \in Returned } = kept
            /\ Len(d_result) = Cardinality(kept)

\* C5 witness: of two branches, one without a worktree and just older than
\* the cutoff is dropped, the other is returned.
C5_Witness ==
    /\ d_pc = "done"
    /\ Len(d_git.names) = 2
    /\ Len(d_result) = 1
    /\ \E n \in DOMAIN d_git.timestamp :
        /\ d_git.worktrees[n].path = NoPath
        /\ d_git.timestamp[n] = Now - RecentDays * SecondsPerDay - 1
        /\ \A e \in Returned : e.name # n

\* C22: when detect_main_branch finds no main branch, every returned branch
\* has ahead_main = behind_main = 0, none is "merged" or "squash-merged" (a
\* deletable one is "upstream gone", and its upstream is gone), and the
\* returned branches are still exactly those that pass the age filter.
C22_NoMainDegrades ==
    (d_pc = "done" /\ detect_main_branch(d_git) = None) =>
        /\ \A e \in Returned :
              /\ e.ahead_main = 0 /\ e.behind_main = 0
              /\ e.delete_reason \notin {"merged", "squash-merged"}
              /\ e.deletable => (e.delete_reason = "upstream gone" /\ UpstreamGone(e))
        /\ { e.name : e \in Returned } =
              { n \in DOMAIN d_git.timestamp :
                    \/ d_git.worktrees[n].path # NoPath
                    \/ d_git.timestamp[n] >= Now - RecentDays * SecondsPerDay }

\* C22 witness: no main branch; a returned branch, not current, its upstream
\* not gone, for which git would report an ancestor of main, cherry marks all
\* "-" and commits ahead of main
C22_Witness ==
    /\ d_pc = "done"
    /\ detect_main_branch(d_git) = None
    /\ \E e \in Returned :
        /\ ~e.is_current
        /\ ~UpstreamGone(e)
        /\ AncestorOfMain(e) /\ CherryAllMerged(e)
        /\ d_git.rev_main[e.name] # <<>>
        /\ ~e.deletable

\* git cherry prints nothing for the branch: no commit is unique to it
NoUniqueCommit(e) == d_git.cherry[e.name] = <<>>

\* C23: is_squash_merged is false for a branch with no commit unique to it
\* relative to main, and no such returned branch is "squash-merged"; if it
\* is an ancestor of the detected main branch (equal to its base), is neither
\* the main branch nor current, and its upstream is not gone, it is
\* deletable as "merged".
C23_EmptyCherryNotSquashMerged ==
    d_pc = "done" =>
        \A e \in Returned :
            NoUniqueCommit(e) =>
                /\ ~is_squash_merged(d_git, e.name)
                /\ e.delete_reason # "squash-merged"
                /\ (/\ detect_main_branch(d_git) # None
                    /\ e.name # detect_main_branch(d_git)
                    /\ ~e.is_current
                    /\ AncestorOfMain(e)
                    /\ ~UpstreamGone(e))
                   => (e.deletable /\ e.delete_reason = "merged")

\* C23 witness: a branch equal to its base, neither main nor current, its
\* upstream not gone, returned as "merged"
C23_Witness ==
    /\ d_pc = "done"
    /\ \E e \in Returned :
        /\ NoUniqueCommit(e)
        /\ AncestorOfMain(e)
        /\ detect_main_branch(d_git) # None
        /\ e.name # detect_main_branch(d_git)
        /\ ~e.is_current
        /\ ~UpstreamGone(e)
        /\ e.delete_reason = "merged"

-----------------------------------------------------------------------------
(* Properties of delete_branch and delete_worktree (SpecCleanup) *)

\* what git answered to the command the call ran
Answer == c_git[<<c_result.argv[4], c_result.argv[5]>>]

\* text is stderr without the whitespace at its two ends
IsStripped(text, stderr) ==
    /\ text # <<>> => (text[1] \notin Whitespace /\ text[Len(text)] \notin Whitespace)
    /\ \E i \in 1..(Len(stderr) + 1) :
          /\ i + Len(text) - 1 <= Len(stderr)
          /\ text = SubSeq(stderr, i, i + Len(text) - 1)
          /\ \A k \in 1..Len(stderr) :
                (k < i \/ k > i + Len(text) - 1) => stderr[k] \in Whitespace

\* C28: delete_branch runs git branch with -D exactly when force is true and
\* with -d otherwise, delete_worktree runs git worktree remove; each returns
\* None exactly when git exits with status 0, and otherwise a str, git's
\* stderr without surrounding whitespace.
C28_DeleteReportsByValue ==
    c_pc = "done" =>
        /\ c_call.fn = "delete_branch" =>
              /\ c_result.argv[4] = "branch"
              /\ c_result.argv[5] = (IF c_call.force THEN "-D" ELSE "-d")
              /\ c_result.argv[6] = c_call.branch
        /\ c_call.fn = "delete_worktree" =>
              /\ c_result.argv[4] = "worktree" /\ c_result.argv[5] = "remove"
              /\ c_result.argv[6] = c_call.worktree_path
        /\ (c_result.ret = <<>>) <=> (Answer.returncode = 0)
        /\ Answer.returncode # 0 =>
              (Len(c_result.ret) = 1 /\ IsStripped(c_result.ret[1], Answer.stderr))

\* C28 witness: a delete_branch without force; git branch -d fails with a
\* message while git branch -D would succeed; the message is returned
C28_Witness ==
    /\ c_pc = "done"
    /\ c_call.fn = "delete_branch" /\ ~c_call.force
    /\ c_git[<<"branch", "-d">>].returncode = 1
    /\ c_git[<<"branch", "-D">>].returncode = 0
    /\ c_result.ret = << <<"e", " ", "r">> >>

-----------------------------------------------------------------------------
(* Properties of parse_worktrees (SpecWorktrees) *)

\* the records of the output that name a branch, in order
BranchRecords == SelectSeq(w_output.records, LAMBDA rec : rec.kind = "branch")

\* C29: parse_worktrees returns one entry per worktree record that names a
\* branch and none for a record with a detached HEAD or without a branch
\* field: the entry's key and its branch are the branch name without
\* refs/heads/, its path is the record's path, its head the first 7
\* characters of the record's HEAD.
C29_ParseWorktrees ==
    w_pc = "done" =>
        /\ w_result # "KeyError"
        /\ Len(w_result) = Len(BranchRecords)
        /\ \A i \in 1..Len(BranchRecords) :
              /\ w_result[i].key = BranchRecords[i].name
              /\ w_result[i].value.branch = BranchRecords[i].name
              /\ w_result[i].value.path = BranchRecords[i].path
              /\ Len(w_result[i].value.head) = 7
              /\ w_result[i].value.head = SubSeq(BranchRecords[i].head, 1, 7)

\* C29 witness: three records, one on a branch with a full object name, one
\* printed as "branch (detached)", one bare; one entry is returned
C29_Witness ==
    /\ w_pc = "done"
    /\ Len(w_output.records) = 3
    /\ \E i, j, k \in 1..3 :
          /\ w_output.records[i].kind = "branch"
          /\ Len(w_output.records[i].head) > 7
          /\ w_output.records[j].kind = "paren"
          /\ w_output.records[k].kind = "bare"
    /\ Len(w_result) = 1

-----------------------------------------------------------------------------
(* Properties of the application (Spec) *)

\* the keys of the rows of a snapshot
KeysOf(data) == { RowKey(rebuild_rows(data)[i]) : i \in 1..Len(rebuild_rows(data)) }

\* the keys the table shows
Shown(tbl) == { tbl[i] : i \in 1..Len(tbl) }

\* _apply_refresh has just run, on a snapshot with the fingerprint of the
\* one it found
AppliedSame ==
    /\ last_apply # NoApply
    /\ data_fingerprint(last_apply[1].new_data) = data_fingerprint(last_apply[1].repo_data)

\* _apply_refresh has just run, with no deletion pending, on a snapshot with
\* another fingerprint
AppliedChanged ==
    /\ last_apply # NoApply
    /\ last_apply[1].confirm.pending = <<>>
    /\ data_fingerprint(last_apply[1].new_data) # data_fingerprint(last_apply[1].repo_data)

\* the key under the cursor when _apply_refresh began
KeyBefore == cursor_key_of(last_apply[1].table, last_apply[1].cursor)

\* C6: when _apply_refresh receives a snapshot whose fingerprint equals that
\* of the current snapshot, repo_data, the derived rows, the table, the
\* filter state and the key under the cursor are all as they were.
C6_SameFingerprintDiscarded ==
    AppliedSame =>
        /\ repo_data = last_apply[1].repo_data
        /\ all_rows = last_apply[1].all_rows
        /\ table = last_apply[1].table
        /\ filter = last_apply[1].filter
        /\ cursor = last_apply[1].cursor
        /\ cursor_key_of(table, cursor) = KeyBefore

\* a snapshot of the same fingerprint, but not the same snapshot, arrived
\* with no deletion pending while the cursor was on a row
C6_Witness ==
    /\ AppliedSame
    /\ last_apply[1].confirm.pending = <<>>
    /\ last_apply[1].new_data # last_apply[1].repo_data
    /\ KeyBefore # <<>>

\* the key under the cursor before an accepted refresh is in the old and in
\* the new snapshot
KeyInBoth ==
    /\ AppliedChanged
    /\ KeyBefore # <<>>
    /\ KeyBefore[1] \in KeysOf(last_apply[1].repo_data)
    /\ KeyBefore[1] \in KeysOf(last_apply[1].new_data)

\* C7 as stated: when an accepted refresh finds the cursor on key K, and K is
\* in the old and in the new snapshot, the cursor is on K afterwards, in
\* every scope and with or without a filter.
C7_CursorFollowsKey ==
    KeyInBoth => cursor_key_of(table, cursor) = KeyBefore

\* C7: when an accepted refresh finds the cursor on key K, K is in the old
\* and in the new snapshot, and K is among the rows the table shows after the
\* refresh, the cursor is on K afterwards.
C7_CursorFollowsShownKey ==
    (KeyInBoth /\ KeyBefore[1] \in Shown(table))
        => cursor_key_of(table, cursor) = KeyBefore

\* the cursor followed its key to another index
C7_Witness ==
    /\ KeyInBoth
    /\ KeyBefore[1] \in Shown(table)
    /\ cursor # last_apply[1].cursor
    /\ cursor_key_of(table, cursor) = KeyBefore

\* C8: an _apply_refresh that arrives while a delete confirmation awaits the
\* user's answer (the deletion is pending, or the confirmation screen is up)
\* leaves repo_data unchanged.
C8_NoSwapWhileConfirming ==
    (/\ last_apply # NoApply
     /\ \/ last_apply[1].confirm.pending # <<>>
        \/ last_apply[1].confirm.modal # <<>>)
        => repo_data = last_apply[1].repo_data

\* the _do_delete run a call belongs to
RunOf(call) == deletes[call.req]

\* the deletion needs the user's consent: the worktree check found modified
\* files or non-ignored untracked entries, or the branch is not deletable
NeedsConfirmation(run) ==
    \/ ~run.branch.deletable
    \/ /\ run.checked # <<>>
       /\ run.checked[1].dirty \/ run.checked[1].entries # <<>>

CallsOf(log, i) == SelectSeq(log, LAMBDA c : c.req = i)

\* one of the calls of run i returned an error
Errored(log, i) == \E k \in 1..Len(log) : log[k].req = i /\ log[k].err

C12_SupersededNeverApplied ==
    (last_apply # NoApply /\ last_apply[1].run.cancelled)
        => repo_data = last_apply[1].repo_data

\* the runs of a lane that no newer run has superseded
NonSuperseded(runs) == { i \in 1..Len(runs) : ~runs[i].cancelled }

\* the runs of a lane that were superseded
Superseded(runs) == { i \in 1..Len(runs) : runs[i].cancelled }

\* C13: a lane never holds two runs that are not superseded; a run started
\* in the refresh or the fetch lane supersedes every earlier run of its own
\* lane, and supersedes or ends no run of another lane.
C13_LanesExclusive ==
    [][ /\ Cardinality(NonSuperseded(refresh')) <= 1
        /\ Cardinality(NonSuperseded(fetch')) <= 1
        /\ Len(refresh') > Len(refresh) =>
              /\ \A i \in 1..Len(refresh) : refresh'[i].cancelled
              /\ Cardinality(Superseded(fetch')) <= Cardinality(Superseded(fetch))
              /\ discovery' = discovery
        /\ Len(fetch') > Len(fetch) =>
              /\ \A i \in 1..Len(fetch) : fetch'[i].cancelled
              /\ refresh' = refresh
              /\ discovery.pc = "running" => discovery' = discovery ]_vars

\* a refresh run was superseded by a newer one while a fetch is running,
\* untouched
C13_Witness ==
    /\ Len(refresh) = 2
    /\ refresh[1].cancelled /\ ~refresh[2].cancelled
    /\ \E i \in 1..Len(fetch) : fetch[i].pc = "running" /\ ~fetch[i].cancelled

\* C14: the tick starts a refresh run only when no deletion is pending, the
\* other repositories are not loading and repo_data is not empty.
C14_TickGuards ==
    [][ (Len(refresh') > Len(refresh) /\ refresh'[Len(refresh')].by = "tick")
            => /\ confirm.pending = <<>>
               /\ ~scope.loading_others
               /\ repo_data # <<>> ]_vars

\* a run the tick started is in flight
C14_Witness ==
    \E i \in 1..Len(refresh) : refresh[i].by = "tick" /\ refresh[i].pc = "running"

\* the step is _post_fetch_refresh: a fetch run that had handed over is gone
PostFetchStep ==
    \E i \in 1..Len(fetch) : fetch[i].pc = "posted" /\ fetch' = drop(fetch, i)

\* C15: a fetch that completes while the other repositories load, or while
\* a deletion is pending, starts no refresh and leaves the snapshot alone.
C15_FetchCompletionSuppressed ==
    [][ (PostFetchStep /\ (scope.loading_others \/ confirm.pending # <<>>))
            => UNCHANGED <<refresh, repo_data, all_rows, table, cursor>> ]_vars

\* the fetch on_mount started has completed while the other repositories
\* were still loading, and no refresh run exists
C15_Witness ==
    /\ app_pc = "running"
    /\ scope.loading_others
    /\ fetch = <<>>
    /\ refresh = <<>>

\* a run of the lane was on its worker thread and has ended there or handed
\* over
LaneWorkerStep(runs, runs2) ==
    \E i \in 1..Len(runs) :
        /\ runs[i].pc = "running"
        /\ \/ runs2 = drop(runs, i)
           \/ Len(runs2) = Len(runs) /\ runs2[i].pc = "posted"

\* the step was taken on a worker thread: by the discovery burst, a refresh
\* run, a fetch run, the worktree check, or _do_delete calling git
WorkerStep ==
    \/ discovery.pc = "running" /\ discovery'.pc = "posted"
    \/ LaneWorkerStep(refresh, refresh')
    \/ LaneWorkerStep(fetch, fetch')
    \/ LaneWorkerStep(check, check')
    \/ calls' # calls

\* C16: no step of a worker thread changes repo_data, the derived rows, the
\* table or the cursor; the workers only hand results over.
C16_WorkersLeaveSnapshot ==
    [][ WorkerStep => UNCHANGED <<repo_data, all_rows, table, cursor>> ]_vars

\* a refresh run has computed a snapshot that differs from repo_data and has
\* handed it over instead of writing it
C16_Witness ==
    \E i \in 1..Len(refresh) : refresh[i].pc = "posted" /\ refresh[i].data # repo_data

\* run j deleted its branch and _remove_row has removed the row; the refresh
\* run just applied had read the repositories before that delete_branch call
AppliedStaleAfterRemoval(j) ==
    /\ last_apply # NoApply
    /\ deletes[j].note = "Deleted"
    /\ \E k \in 1..Len(calls) :
          /\ calls[k].req = j
          /\ calls[k].op = "delete_branch"
          /\ ~calls[k].err
          /\ last_apply[1].run.seen < k

\* C17: once the row of a successfully deleted branch has been removed, a
\* refresh run that read the repositories before the deletion completed
\* does not bring the branch back: after its _apply_refresh the rows do not
\* hold the branch.
C17_DeletedBranchStaysDeleted ==
    \A j \in 1..Len(deletes) :
        AppliedStaleAfterRemoval(j) =>
            \A r \in 1..Len(all_rows) :
                ~(all_rows[r].repo = deletes[j].repo
                  /\ all_rows[r].b.name = deletes[j].branch.name)

\* run i has deleted its branch and hands over to the coordinating thread,
\* whose handler (_remove_row) runs in this step
DeleteCompletes(i) == deletes[i].pc = "remove" /\ deletes'[i].pc = "done"

\* C24: a successful mutation starts a refresh run: when a branch has been
\* deleted, the handler that completes the deletion starts a run of
\* _refresh_repos. (After a successful create, _post_create_worktree calls
\* _refresh_repos.)
C24_DeleteStartsRefresh ==
    [][ \A i \in 1..Len(deletes) :
            DeleteCompletes(i) =>
                /\ refresh' # refresh
                /\ \E k \in 1..Len(refresh') : refresh'[k].pc = "running"
      ]_vars

-----------------------------------------------------------------------------
(* Properties of the cursor (SpecCursor) *)

\* an accepted refresh found the cursor on a key that the table does not
\* show afterwards
KeyVanished ==
    /\ AppliedChanged
    /\ KeyBefore # <<>>
    /\ KeyBefore[1] \notin Shown(table)

\* C26: when an accepted refresh found the cursor on a key the table no
\* longer shows, and the table is not empty, the cursor is at
\* min(previous index, row_count - 1), which is a row of the table.
C26_CursorClamped ==
    (KeyVanished /\ Len(table) > 0) =>
        /\ cursor = IF last_apply[1].cursor < Len(table) - 1
                    THEN last_apply[1].cursor ELSE Len(table) - 1
        /\ cursor \in 0..(Len(table) - 1)

\* the key under the cursor vanished and the previous index lies beyond the
\* last row of the new table: the cursor is on the last row
C26_Witness ==
    /\ KeyVanished
    /\ Len(table) > 0
    /\ last_apply[1].cursor > Len(table) - 1
    /\ cursor = Len(table) - 1

-----------------------------------------------------------------------------
(* Properties of the pin set (SpecPins) *)

\* C27: the pin set touches the order of the rows only: a step that pins or
\* unpins a branch leaves repo_data and the derived rows, hence every
\* BranchInfo with its deletable and delete_reason, unchanged, and the table
\* shows the same rows after it as before, possibly in another order.
C27_PinsOnlyReorder ==
    [][ pins' # pins =>
            /\ repo_data' = repo_data
            /\ all_rows' = all_rows
            /\ Shown(table') = Shown(table)
      ]_vars

-----------------------------------------------------------------------------
(* Properties of _data_fingerprint (SpecFingerprint) *)

\* C18: the fingerprint of a snapshot is the same whenever it is taken, and
\* changing any one field of one BranchInfo (is_current and the worktree's
\* head and branch included) or the name of a repository gives a different
\* fingerprint.
C18_FingerprintDetectsChange ==
    f_pc = "done" =>
        /\ f_result[1] = data_fingerprint(f_data)
        /\ f_result[1] # f_result[2]

-----------------------------------------------------------------------------
(* Properties of the fan-out (SpecLanes) *)

\* what a fan-out over todo hands over when no repository fails, without the
\* entries of the repositories that fail in w
SucceededOf(w, cwd, todo) ==
    SelectSeq(discover_all([w EXCEPT !.down = {}], cwd, todo),
              LAMBDA e : e.name \notin w.down)

\* the discovery burst hands its result over in this step
DiscoveryHandsOver == discovery.pc = "running" /\ discovery'.pc = "posted"

\* refresh run i hands its result over in this step
RefreshHandsOver(i) ==
    /\ refresh[i].pc = "running"
    /\ Len(refresh') = Len(refresh)
    /\ refresh'[i].pc = "posted"

\* C19: when git fails in one repository, the discovery burst and the
\* refresh run still hand over the entries of the repositories that
\* succeeded, exactly as if no repository had failed, and nothing for the
\* failing one; _merge_discovered adds every such entry of a new repository
\* to the snapshot, and _apply_refresh, unless a deletion is pending or the
\* fingerprint is unchanged, makes the handed-over entries the snapshot.
C19_FailureKeepsOthers ==
    [][ /\ DiscoveryHandsOver =>
              discovery'.data = SucceededOf(world, scope'.effective_cwd, discovery.repos)
        /\ \A i \in 1..Len(refresh) :
              RefreshHandsOver(i) =>
                  refresh'[i].data =
                      SucceededOf(world, scope'.effective_cwd, repo_paths(repo_data))
        /\ (discovery.pc = "posted" /\ discovery'.pc = "done") =>
              \A k \in 1..Len(discovery.data) :
                  (\A r \in 1..Len(repo_data) : repo_data[r].name # discovery.data[k].name)
                      => \E r \in 1..Len(repo_data') : repo_data'[r] = discovery.data[k]
        /\ AppliedChanged' => repo_data' = last_apply'[1].new_data
      ]_vars

\* a refresh run that found one of the two repositories of the snapshot
\* failing has been applied: the snapshot holds the other repository alone
C19_Witness ==
    /\ AppliedChanged
    /\ Len(last_apply[1].repo_data) = 2
    /\ \E r \in 1..2 : last_apply[1].repo_data[r].name \in world.down
    /\ Len(repo_data) = 1
    /\ repo_data = last_apply[1].new_data
    /\ repo_data[1].name \notin world.down

\* no entry of a handed-over result has an empty branch list
NoEmptyEntry(data) == \A k \in 1..Len(data) : data[k].branches # <<>>

\* C20: a repository whose discovery yields no branch is left out of what
\* the discovery burst and the refresh run hand over: no result waiting for
\* _merge_discovered or for _apply_refresh, and no snapshot _apply_refresh
\* has just received, holds an entry with an empty branch list.
C20_NoEmptyRepoHandedOver ==
    /\ discovery.pc = "posted" => NoEmptyEntry(discovery.data)
    /\ \A i \in 1..Len(refresh) :
          refresh[i].pc = "posted" => NoEmptyEntry(refresh[i].data)
    /\ last_apply # NoApply => NoEmptyEntry(last_apply[1].new_data)

\* a refresh run waits for _apply_refresh with a result that lacks a
\* repository of the snapshot whose discovery yielded no branch
C20_Witness ==
    /\ \E i \in 1..Len(refresh) :
          /\ refresh[i].pc = "posted"
          /\ refresh[i].data # <<>>
          /\ \E r \in 1..Len(repo_data) :
                /\ repo_data[r].name \in world.down
                /\ \A k \in 1..Len(refresh[i].data) :
                      refresh[i].data[k].name # repo_data[r].name

-----------------------------------------------------------------------------
(* Properties of the snapshot's repository names (SpecNames) *)

\* C21: no two entries of repo_data have the same name, whatever sequence
\* of initial discovery, merges of the discovery burst, refreshes and
\* deletions produced it, also when two configured repositories share a
\* directory name.
C21_RepoNamesUnique ==
    \A i, j \in 1..Len(repo_data) :
        i # j => repo_data[i].name # repo_data[j].name

-----------------------------------------------------------------------------
(* Properties of the refresh cycles (SpecOutage) *)

\* C30: a repository that contributed no branch to one refresh cycle is
\* queried again by the later ones: once every configured repository has
\* been discovered, each refresh run hands over an entry for every
\* configured repository in which git does not fail at that time.
C30_DroppedRepoQueriedAgain ==
    [][ \A i \in 1..Len(refresh) :
            (RefreshHandsOver(i) /\ discovery.pc = "done") =>
                \A k \in 1..Len(world.repos) :
                    world.repos[k].name \notin world.down =>
                        \E j \in 1..Len(refresh'[i].data) :
                            refresh'[i].data[j].name = world.repos[k].name
      ]_vars

-----------------------------------------------------------------------------
(* Properties of the refresh after a created worktree (SpecCreate) *)

\* the entries of the snapshot that _merge_discovered added and whose
\* repository still has branches
MergedAlive ==
    { k \in 1..Len(repo_data) :
        /\ discovery.pc = "done"
        /\ \E r \in 1..Len(discovery.repos) :
              /\ discovery.repos[r].name = repo_data[k].name
              /\ discovery.repos[r].path = repo_data[k].path
        /\ discover_all(world, scope.effective_cwd,
                        <<[name |-> repo_data[k].name, path |-> repo_data[k].path]>>)
               # <<>> }

\* C31: a repository that _merge_discovered added to the snapshot and that
\* still has branches is in repo_data after every _apply_refresh, also the
\* one of a refresh run that _post_create_worktree started before the merge.
C31_MergedRepoSurvivesRefresh ==
    [][ last_apply' # NoApply =>
            \A k \in MergedAlive :
                \E j \in 1..Len(repo_data') : repo_data'[j].name = repo_data[k].name
      ]_vars

-----------------------------------------------------------------------------
(* Properties of the discovery burst (SpecLoading) *)

\* C32: whenever the discovery burst has been started (_loading_others is
\* true), _loading_others becomes false in the end, whether the burst's
\* worker completes or is cancelled.
C32_LoadingEnds == scope.loading_others ~> ~scope.loading_others

\* C32, amended: whenever the discovery burst has been started,
\* _loading_others becomes false in the end unless the application exits
\* first.
C32_LoadingEndsWhileRunning ==
    scope.loading_others ~> (~scope.loading_others \/ app_pc = "exited")

\* the burst was started for a repository in which git fails, it has ended
\* with nothing to merge, and the application runs with the flag cleared
C32_Witness ==
    /\ app_pc = "running"
    /\ discovery.pc = "done"
    /\ discovery.repos # <<>>
    /\ \A r \in 1..Len(discovery.repos) : discovery.repos[r].name \in world.down
    /\ \A k \in 1..Len(repo_data) :
          \A r \in 1..Len(discovery.repos) : repo_data[k].name # discovery.repos[r].name
    /\ ~scope.loading_others

-----------------------------------------------------------------------------
(* Properties of the confirmation protocol (SpecConfirm) *)

\* C33: while _pending_delete is set, the confirmation bar or the
\* confirmation screen is up or the worktree check is still on its way to
\* _show_delete_dialog; and once _pending_delete is set it returns to None
\* in the end, provided the user answers.
C33_ConfirmationEnds ==
    /\ [](confirm.pending # <<>> =>
              (confirm.bar \/ confirm.modal # <<>> \/ check # <<>>))
    /\ (confirm.pending # <<>>) ~> (confirm.pending = <<>>)

\* a request for a branch with a worktree was pending, the check found a
\* reason to ask, the user answered 'y' on the confirmation screen, and
\* nothing is pending any more
C33_Witness ==
    /\ confirm.pending = <<>>
    /\ confirm.modal = <<>>
    /\ check = <<>>
    /\ \E i \in 1..Len(deletes) : deletes[i].yes /\ deletes[i].checked # <<>>

\* C34: no delete_worktree or delete_branch call is made for a request the
\* user has dismissed: when the result of a worktree check arrives for a
\* request that is no longer pending (escape was pressed while the check
\* ran), _show_delete_dialog starts no _do_delete run.
C34_CancelIsFinal ==
    [][ \A i \in 1..Len(check) :
            ( /\ check[i].pc = "posted"
              /\ confirm.pending # <<check[i].row>>
              /\ check' = drop(check, i) )
                => deletes' = deletes ]_vars

\* the branch detect_main_branch reports for the repository of a row
default_of(row) == detect_main_branch(RepoFactsOf(world, [name |-> row.repo, path |-> row.path]))

\* C35: the delete action never starts a deletion, at once or through a
\* worktree check or a confirmation prompt, of a branch that is the current
\* branch or the detected default branch of its repository, whatever its
\* name
C35_DefaultBranchRefused ==
    /\ \A i \in 1..Len(check) :
          ~check[i].row.b.is_current /\ check[i].row.b.name # default_of(check[i].row)
    /\ \A i \in 1..Len(deletes) :
          ~deletes[i].branch.is_current
          /\ deletes[i].branch.name # default_of(deletes[i])
    /\ confirm.pending # <<>> =>
          ~confirm.pending[1].b.is_current
          /\ confirm.pending[1].b.name # default_of(confirm.pending[1])

\* the returned branches whose worktree holds the working directory
CurrentHere == { e \in Returned : HasWorktree(e) /\ CwdInWorktree(e) }

\* no worktree of the repository lies inside another one
Nested(p, q) == Len(p) < Len(q) /\ SubSeq(q, 1, Len(p)) = p
NoNestedWorktrees ==
    \A m, n \in DOMAIN d_git.worktrees :
        ~( d_git.worktrees[m].path # NoPath
           /\ Nested(d_git.worktrees[m].path, d_git.worktrees[n].path) )

\* C36: in every discovery result at most one branch has is_current true,
\* whatever the working directory and the layout of the worktrees (one
\* worktree inside another included), and only a branch whose worktree path
\* is the working directory or an ancestor of it has is_current true
C36_AtMostOneCurrent ==
    d_pc = "done" =>
        /\ Cardinality({ e \in Returned : e.is_current }) <= 1
        /\ \A e \in Returned : e.is_current => e \in CurrentHere

\* C36, amended: is_current is true exactly for the branches whose worktree
\* path is the working directory or an ancestor of it; that is at most one
\* branch when no worktree lies inside another one, and the branches of
\* both worktrees when the working directory is inside the inner one
C36_CurrentWhereCwdIs ==
    d_pc = "done" =>
        /\ { e \in Returned : e.is_current } = CurrentHere
        /\ NoNestedWorktrees => Cardinality({ e \in Returned : e.is_current }) <= 1

\* two worktrees side by side, the working directory below one of them
C36_Witness ==
    /\ d_pc = "done"
    /\ NoNestedWorktrees
    /\ Cardinality({ e \in Returned : HasWorktree(e) }) = 2
    /\ \E e \in Returned : e.is_current /\ d_cwd # e.worktree.path

\* C37: the row list is always the in-order flattening of the snapshot into
\* (repository name, repository path, branch) rows, after the first
\* discovery, a merge, an accepted refresh and the removal of a row
C37_RowsAreFlattenedSnapshot == all_rows = rebuild_rows(repo_data)

\* C38: every repository entry of the snapshot has at least one branch,
\* after any discoveries, refreshes and deletions; a repository whose last
\* branch was deleted does not stay in repo_data with an empty branch list
C38_NoEmptyRepoInSnapshot == \A k \in 1..Len(repo_data) : repo_data[k].branches # <<>>

\* the rows in scope: every row, or the rows of the current repository when
\* not showing all and a current repository is set
InScope ==
    IF ~scope.show_all /\ scope.current_repo # None
    THEN SelectSeq(all_rows, LAMBDA r : r.repo = scope.current_repo)
    ELSE all_rows

\* the group of a row in scope: 0 the active branch, 1 pinned, 2 the rest
GroupOf(r) ==
    IF scope.active_branch_key = <<r.repo, r.b.name>> THEN 0
    ELSE IF pin_key(r.repo, r.b.name) \in pins THEN 1 ELSE 2

\* C39: _scoped_rows returns a permutation of the rows in scope, no row lost
\* or duplicated, with the active branch first, then the pinned rows, then
\* the unpinned ones, each group in the snapshot's order
C39_ScopedRowsArePermutation ==
    app_pc = "running" =>
        \E f \in [1..Len(table) -> 1..Len(InScope)] :
            /\ Len(table) = Len(InScope)
            /\ \A i, j \in 1..Len(table) : i # j => f[i] # f[j]
            /\ \A i \in 1..Len(table) : table[i] = RowKey(InScope[f[i]])
            /\ \A i, j \in 1..Len(table) :
                  i < j => \/ GroupOf(InScope[f[i]]) < GroupOf(InScope[f[j]])
                           \/ /\ GroupOf(InScope[f[i]]) = GroupOf(InScope[f[j]])
                              /\ f[i] < f[j]

\* four rows in scope, one of them active and not the first of the snapshot,
\* one pinned and one unpinned row before a pinned one in the snapshot
C39_Witness ==
    /\ app_pc = "running"
    /\ Len(table) = 4
    /\ \E i \in 2..4 : GroupOf(InScope[i]) = 0
    /\ \E i, j \in 1..4 : i < j /\ GroupOf(InScope[i]) = 2 /\ GroupOf(InScope[j]) = 1

\* C40: for every branch of a discovery result, deletable is true exactly
\* when delete_reason is present, and a present delete_reason is "upstream
\* gone", "merged" or "squash-merged"
C40_DeletableIffReason ==
    d_pc = "done" =>
        \A e \in Returned :
            /\ e.deletable <=> e.delete_reason # None
            /\ e.delete_reason \in {None, "upstream gone", "merged", "squash-merged"}

\* a result with a squash-merged branch beside one that no rule matches
C40_Witness ==
    /\ d_pc = "done"
    /\ \E e \in Returned : e.deletable /\ e.delete_reason = "squash-merged"
    /\ \E e \in Returned : ~e.deletable /\ e.delete_reason = None /\ ~e.is_current
                              /\ e.name # detect_main_branch(d_git)

====
